---- MODULE Spec2Model ----
(***************************************************************************)
(* Credential lifecycle and calendar routes of the Google Calendar         *)
(* backend.                                                                *)
(*                                                                         *)
(* State: the tables google_calendar_tokens, calendar_events and           *)
(* google_calendar_events, the two module-wide OAuth2 clients, each user's *)
(* remote calendar, the wall clock, and the in-flight requests.  Every     *)
(* handler is cut at its `await` points: one action per resumption, so     *)
(* requests interleave exactly where the event loop lets them.             *)
(*                                                                         *)
(* JavaScript values are strings here: "null" stands for null/undefined,   *)
(* "true"/"false" for the booleans, so that && and || can be modelled with *)
(* their operand-returning semantics.                                      *)
(***************************************************************************)
EXTENDS Integers, Sequences, FiniteSets, Bags, TLC

\* ------------------------------------------------------------------ bounds
MaxTime == 2          \* the clock runs over 0..MaxTime

Users == {"u1", "u2"}
Procs == {"p1", "p2"}
AccessTokens == {"a1", "a2"}
RefreshTokens == {"r1", "r2"}

NULL == "null"
NoUser == ""          \* a falsy userId argument

\* ------------------------------------------------------- JavaScript values
Truthy(v) == v \notin {NULL, "false", ""}
JsBool(b) == IF b THEN "true" ELSE "false"
\* a && b evaluates to a when a is falsy, else to b
JsAnd(a, b) == IF Truthy(a) THEN b ELSE a
\* a || b evaluates to a when a is truthy, else to b
JsOr(a, b) == IF Truthy(a) THEN a ELSE b
JsNot(a) == JsBool(~Truthy(a))

\* new Date(ms).toISOString(): the instant as a string
ToISOString(ms) == "T" \o ToString(ms)
\* the instants an ISO string of this model can denote
Instants == 0..(MaxTime + 2)
\* new Date(isoString).getTime()
DateParse(s) == CHOOSE ms \in Instants : ToISOString(ms) = s

\* ------------------------------------------------------------------- state
VARIABLES
    tokens,         \* table google_calendar_tokens: user_id -> row
    oauth2Client,   \* credentials held by the OAuth2 client of utils/googleCalendar
    authClient,     \* credentials held by the OAuth2 client of routes/auth
    now,            \* wall clock, milliseconds
    req,            \* the in-flight requests
    cbRefresh,      \* history: refresh_token each user's row held after the
                    \* last authorization callback wrote it
    disconnected,   \* history: users whose row was last removed by a disconnect
    rowCount,       \* table google_calendar_tokens: user_id -> number of rows
    events,         \* table calendar_events: a bag of rows
    gcalEvents,     \* table google_calendar_events: a bag of rows
    remote,         \* the remote calendar of each user: events by start time
    call,           \* the calendar route each slot serves
    lastPull,       \* history: the last successful pull and the table it left
    mapped          \* the event mapper: the zone the process runs in, and the
                    \* argument and result of the mapping it was last asked for

\* the state of the calendar routes
evVars == <<events, gcalEvents, remote, call, lastPull>>

vars == <<tokens, oauth2Client, authClient, now, req, cbRefresh, disconnected,
          rowCount, evVars, mapped>>

NoRow == [user_id |-> NULL, access_token |-> NULL,
          refresh_token |-> NULL, expiry_date |-> NULL]
NoCredentials == [access_token |-> NULL, refresh_token |-> NULL, expiry_date |-> 0]
NoResult == [status |-> 0, error |-> "", returns |-> "none",
             connected |-> NULL, needsRefresh |-> NULL, lastSync |-> NULL]
NoClientCreds == [access_token |-> NULL, refresh_token |-> NULL]

Idle == [op |-> "idle", pc |-> "idle", user |-> NoUser,
         tokenData |-> NoRow, credentials |-> NoCredentials,
         result |-> NoResult,
         calls |-> 0,          \* history: calls to the authorization server
         writes |-> 0,         \* history: writes to google_calendar_tokens
         hadRow |-> FALSE,     \* history: the row existed at the store call
         storeOk |-> TRUE,     \* history: no store call of the request failed
         code |-> NULL,        \* history: the authorization code of the callback
         again |-> FALSE]      \* history: a disconnect directly after a disconnect

Rows == [user_id : Users, access_token : AccessTokens,
         refresh_token : RefreshTokens \cup {NULL},
         expiry_date : {ToISOString(t) : t \in Instants} \cup {NULL}]

RowOf(u) == IF u \in DOMAIN tokens THEN tokens[u] ELSE NoRow

\* req.body.eventData of add-event, here of a body without one
NoEventData == [title |-> NULL, description |-> NULL, location |-> NULL,
                due_date |-> NULL, due_time |-> NULL, present |-> FALSE]
\* UTC offset, in hours, of the time zone the server runs in
ServerOffset == 0
\* the event mapper before it is asked for anything
NoMapping == [fn |-> "none", zone |-> ServerOffset, user |-> NoUser,
              arg |-> <<>>, ret |-> <<>>]
\* a slot that serves no calendar route
NoCall == [route |-> "none", pc |-> "idle", user |-> NoUser,
           status |-> 0, error |-> "", details |-> "",
           eventData |-> NoEventData,  \* add-event: the eventData of the body
           auth |-> NULL,        \* access token the remote call is sent with
           authRefresh |-> NULL, \* refresh token held by the client that sends it
           items |-> <<>>,       \* sync-events: the events the remote listed
           batch |-> <<>>,       \* the rows sent to calendar_events
           syncedCount |-> -1,   \* sync-events: syncedCount of the response
           returned |-> EmptyBag,  \* the rows the response carries
           remoteCalls |-> 0,    \* history: calls to the remote calendar
           eventWrites |-> 0,    \* history: writes sent to calendar_events
           answered |-> TRUE,    \* history: the store was there to take the call
           stored |-> FALSE,     \* history: the store call of the route succeeded
           repeat |-> FALSE,     \* history: the pull before listed the same events
           prevAt |-> -1]        \* history: the time of the pull before
\* no pull has succeeded since calendar_events was last written otherwise
\* and the remote calendar last changed
NoPull == [valid |-> FALSE, user |-> NoUser, at |-> -1, items |-> <<>>,
           rows |-> EmptyBag]

Init ==
    /\ tokens = [u \in {} |-> NoRow]
    /\ oauth2Client = NoClientCreds
    /\ authClient = NoClientCreds
    /\ now = 0
    /\ req = [p \in Procs |-> Idle]
    /\ cbRefresh = [u \in Users |-> NULL]
    /\ disconnected = {}
    /\ rowCount = [u \in Users |-> 0]
    /\ events = EmptyBag
    /\ gcalEvents = EmptyBag
    /\ remote = [u \in Users |-> <<>>]
    /\ call = [p \in Procs |-> NoCall]
    /\ lastPull = NoPull
    /\ mapped = NoMapping

\* ------------------------------------------------------------ environment
\* outcome of one call to the store: it answers, or it answers with an
\* error object (the client reports failures in `error`, it does not throw)
StoreOutcomes == {"ok", "error"}
\* authorization codes a callback can carry (NULL: no code parameter)
Codes == {"good", "bad", NULL}
\* expiry_date of a token response; 0 stands for an absent expiry_date
\* (both are falsy where the handlers test it)
ExpiryAt(t) == {0, t + 1}

\* ------------------------------------------------------------ store calls
\* bug variant: an empty result of the select is not treated as a failure
FoundNoRowCheck(u, outcome) == outcome = "ok"
\* bug variant: the error of the select is not looked at
FoundDespiteError(u, outcome) == u \in DOMAIN tokens

\* bug variant: without a row, the credentials the shared client still holds
\* from an earlier operation are taken for the user's
FoundOrCached(u, outcome) ==
    outcome = "ok" /\ (u \in DOMAIN tokens \/ Truthy(oauth2Client.access_token))

\* supabase.from("google_calendar_tokens").select("*").eq("user_id", u).single():
\* TRUE when a row comes back without error
Found(u, outcome) == outcome = "ok" /\ u \in DOMAIN tokens

\* the columns of `payload` written over `row`, the others kept
Merge(row, payload) ==
    [c \in DOMAIN row |-> IF c \in DOMAIN payload THEN payload[c] ELSE row[c]]

\* variant: a conditional update, which leaves alone a row that carries no
\* expiry_date (compare-and-swap on expiry)
UpdateIfExpiring(tbl, u, payload) ==
    IF u \in DOMAIN tbl /\ tbl[u].expiry_date # NULL
    THEN [tbl EXCEPT ![u] = Merge(tbl[u], payload)] ELSE tbl
\* variant: the write is an upsert, which inserts the row when none matches
UpdateOrInsert(tbl, u, payload) ==
    [v \in DOMAIN tbl \cup {u} |->
        IF v = u THEN Merge(IF u \in DOMAIN tbl THEN tbl[u] ELSE NoRow,
                            [user_id |-> u] @@ payload)
        ELSE tbl[v]]

\* .update(payload).eq("user_id", u): rewrites the matching row, if any
Update(tbl, u, payload) ==
    IF u \in DOMAIN tbl THEN [tbl EXCEPT ![u] = Merge(tbl[u], payload)] ELSE tbl

\* .upsert(payload, {onConflict: "user_id"}): inserts the row, or on a
\* conflicting user_id rewrites the columns the payload carries (a property
\* whose value is undefined is dropped from the request body)
Upsert(tbl, u, payload) ==
    [v \in DOMAIN tbl \cup {u} |->
        IF v = u THEN Merge(IF u \in DOMAIN tbl THEN tbl[u] ELSE NoRow, payload)
        ELSE tbl[v]]

\* bug variant: the callback inserts a row whether or not one exists
RowsAfterInsert(n) == n + 1

\* rows carrying a user_id after .upsert(..., {onConflict: "user_id"}), of n
\* before: a conflicting row is rewritten, only a missing one is added
RowsAfterUpsert(n) == IF n = 0 THEN 1 ELSE n

\* bug variant: the delete matches no row
DeleteNothing(tbl, u) == tbl

\* .delete().eq("user_id", u)
Delete(tbl, u) == [v \in DOMAIN tbl \ {u} |-> tbl[v]]

\* ------------------------------------------------------ pure computations
\* bug variant: the freshness comparison is inclusive
IsExpiredInclusive(tokenData, t) ==
    IF Truthy(tokenData.expiry_date)
    THEN JsBool(t >= DateParse(tokenData.expiry_date))
    ELSE tokenData.expiry_date

\* tokenData.expiry_date && new Date() > new Date(tokenData.expiry_date)
IsExpired(tokenData, t) ==
    IF Truthy(tokenData.expiry_date)
    THEN JsBool(t > DateParse(tokenData.expiry_date))
    ELSE tokenData.expiry_date

\* bug variant: the refreshed expiry is not persisted
RefreshPayloadNoExpiry(credentials) ==
    [access_token |-> credentials.access_token]
\* bug variant: the update also rewrites refresh_token, from a token
\* response that carries none
RefreshPayloadRotating(credentials) ==
    [access_token |-> credentials.access_token,
     refresh_token |-> NULL,
     expiry_date |-> IF credentials.expiry_date # 0
                     THEN ToISOString(credentials.expiry_date) ELSE NULL]

\* bug variant: the update rewrites the expiry and leaves the access token
RefreshPayloadExpiryOnly(credentials) ==
    [expiry_date |-> IF credentials.expiry_date # 0
                     THEN ToISOString(credentials.expiry_date) ELSE NULL]

\* the object handed to .update() after a refresh
RefreshPayload(credentials) ==
    [access_token |-> credentials.access_token,
     expiry_date |-> IF credentials.expiry_date # 0
                     THEN ToISOString(credentials.expiry_date) ELSE NULL]

\* tokenData of the callback, as serialized into the upsert request
CallbackPayload(u, t) ==
    LET base == [user_id |-> u,
                 access_token |-> t.access_token,
                 expiry_date |-> IF t.expiry_date # 0
                                 THEN ToISOString(t.expiry_date) ELSE NULL]
    IN IF t.refresh_token = NULL THEN base
       ELSE base @@ [refresh_token |-> t.refresh_token]

\* the object getUserConnectionStatusFromDatabase returns for a row
StatusOf(tokenData, t) ==
    LET isExpired == IsExpired(tokenData, t)
    IN [connected |-> JsOr(JsNot(isExpired), JsNot(JsNot(tokenData.refresh_token))),
        lastSync |-> tokenData.expiry_date,
        needsRefresh |-> JsAnd(isExpired, JsNot(JsNot(tokenData.refresh_token)))]

\* ---------------------------------------------------------------- requests
Done(r, status, error, returns) ==
    [r EXCEPT !.pc = "done",
              !.result = [NoResult EXCEPT !.status = status, !.error = error,
                                          !.returns = returns]]

\* bug variant: the returned object lacks the refresh token
StoredCredentialNoRefresh(tokenData) ==
    [access_token |-> tokenData.access_token,
     refresh_token |-> NULL,
     expiry_date |-> tokenData.expiry_date,
     user_id |-> tokenData.user_id]

\* the object getUserTokensFromDatabase returns for a fresh row
StoredCredential(tokenData) ==
    [access_token |-> tokenData.access_token,
     refresh_token |-> tokenData.refresh_token,
     expiry_date |-> tokenData.expiry_date,
     user_id |-> tokenData.user_id]

\* bug variant: the refresh is attempted without looking for a refresh token
CanRefreshAlways(tokenData) == TRUE

\* if (!tokenData.refresh_token) ... : the row can be renewed
CanRefresh(tokenData) == Truthy(tokenData.refresh_token)

\* oauth2Client.setCredentials(c) replaces the client's credentials
SetCredentials(c) ==
    [access_token |-> IF "access_token" \in DOMAIN c THEN c.access_token ELSE NULL,
     refresh_token |-> IF "refresh_token" \in DOMAIN c THEN c.refresh_token ELSE NULL]

\* what oauth2Client.refreshAccessToken() resolves to and leaves on the
\* client: the server's answer, with the client's refresh token put back
Refreshed(client, a, e) ==
    [access_token |-> a, refresh_token |-> client.refresh_token, expiry_date |-> e]

\* -------------------------------------- getUserTokensFromDatabase(userId)
\* from the call to the resumption after the select: not found, fresh,
\* expired without refresh token, or the refresh request is sent
ResolveSelect(p, u, outcome) ==
    /\ req[p].pc = "idle"
    /\ LET r0 == [req[p] EXCEPT !.op = "resolve", !.user = u]
           r1 == [r0 EXCEPT !.hadRow = u \in DOMAIN tokens,
                            !.storeOk = outcome = "ok"]
           r2 == [r1 EXCEPT !.tokenData = StoredCredential(RowOf(u))]
       IN IF u = NoUser
          THEN /\ outcome = "ok"
               /\ req' = [req EXCEPT ![p] = Done(r0, 0, "User ID is required", "none")]
               /\ UNCHANGED oauth2Client
          ELSE IF ~Found(u, outcome)
          THEN /\ req' = [req EXCEPT ![p] =
                            Done(r1, 0, "No Google tokens found in database", "none")]
               /\ UNCHANGED oauth2Client
          ELSE IF Truthy(IsExpired(RowOf(u), now))
          THEN IF ~CanRefresh(RowOf(u))
               THEN /\ req' = [req EXCEPT ![p] =
                         Done(r1, 0, "Token expired and no refresh token available", "none")]
                    /\ UNCHANGED oauth2Client
               ELSE /\ oauth2Client' =
                         SetCredentials([refresh_token |-> RowOf(u).refresh_token])
                    /\ req' = [req EXCEPT ![p] =
                         [r1 EXCEPT !.pc = "refreshing", !.calls = @ + 1]]
          ELSE /\ req' = [req EXCEPT ![p] = Done(r2, 0, "", "tokenData")]
               /\ UNCHANGED oauth2Client
    /\ UNCHANGED <<tokens, authClient, now, cbRefresh, disconnected, rowCount>>

\* the authorization server answers the refresh of refreshUserTokensFromDatabase;
\* on success the update is sent to the store
ResolveRefreshed(p, ok, a, e) ==
    /\ req[p].pc = "refreshing"
    /\ req[p].op = "resolve"
    /\ IF ok
       THEN /\ a \in AccessTokens
            /\ oauth2Client' = SetCredentials(Refreshed(oauth2Client, a, e))
            /\ req' = [req EXCEPT ![p] =
                 [req[p] EXCEPT !.pc = "updating",
                                !.credentials = Refreshed(oauth2Client, a, e)]]
       ELSE /\ a = NULL /\ e = 0
            /\ req' = [req EXCEPT ![p] = Done(req[p], 0, "invalid_grant", "none")]
            /\ UNCHANGED oauth2Client
    /\ UNCHANGED <<tokens, authClient, now, cbRefresh, disconnected, rowCount>>

\* bug variant: the error of the update is not looked at
UpdateErrorIgnored(outcome) == FALSE

\* if (updateError)
UpdateFailed(outcome) == outcome # "ok"

\* the store answers the update of refreshUserTokensFromDatabase
ResolveUpdate(p, outcome) ==
    /\ req[p].pc = "updating"
    /\ req[p].op = "resolve"
    /\ LET r1 == [req[p] EXCEPT !.storeOk = outcome = "ok",
                                !.hadRow = req[p].user \in DOMAIN tokens,
                                !.writes = @ + 1]
           r0 == [r1 EXCEPT !.credentials = NoCredentials]
       IN IF ~UpdateFailed(outcome)
          THEN /\ tokens' = Update(tokens, req[p].user, RefreshPayload(req[p].credentials))
               /\ req' = [req EXCEPT ![p] = Done(r1, 0, "", "credentials")]
          ELSE /\ req' = [req EXCEPT ![p] =
                    Done(r0, 0, "Failed to update tokens in database", "none")]
               /\ UNCHANGED tokens
    /\ UNCHANGED <<oauth2Client, authClient, now, cbRefresh, disconnected, rowCount>>

\* ------------------------------------------- POST /google/refresh/:userId
\* bug variant: a row without refresh_token passes the check
HasRefreshTokenAnyRow(u, outcome) == Found(u, outcome)

\* if (tokenError || !tokenData || !tokenData.refresh_token)
HasRefreshToken(u, outcome) == Found(u, outcome) /\ Truthy(RowOf(u).refresh_token)

\* from the request to the resumption after the select
RefreshSelect(p, u, outcome) ==
    /\ req[p].pc = "idle"
    /\ u \in Users
    /\ LET r1 == [req[p] EXCEPT !.op = "refresh", !.user = u,
                                !.hadRow = u \in DOMAIN tokens,
                                !.storeOk = outcome = "ok"]
       IN IF ~HasRefreshToken(u, outcome)
          THEN /\ req' = [req EXCEPT ![p] = Done(r1, 404, "No refresh token found", "none")]
               /\ UNCHANGED authClient
          ELSE /\ authClient' = SetCredentials([refresh_token |-> RowOf(u).refresh_token])
               /\ req' = [req EXCEPT ![p] =
                    [r1 EXCEPT !.pc = "refreshing", !.calls = @ + 1]]
    /\ UNCHANGED <<tokens, oauth2Client, now, cbRefresh, disconnected, rowCount>>

\* the authorization server answers; on success the update is sent
RefreshRefreshed(p, ok, a, e) ==
    /\ req[p].pc = "refreshing"
    /\ req[p].op = "refresh"
    /\ IF ok
       THEN /\ a \in AccessTokens
            /\ authClient' = SetCredentials(Refreshed(authClient, a, e))
            /\ req' = [req EXCEPT ![p] =
                 [req[p] EXCEPT !.pc = "updating",
                                !.credentials = Refreshed(authClient, a, e)]]
       ELSE /\ a = NULL /\ e = 0
            /\ req' = [req EXCEPT ![p] =
                 Done(req[p], 500, "Failed to refresh tokens", "none")]
            /\ UNCHANGED authClient
    /\ UNCHANGED <<tokens, oauth2Client, now, cbRefresh, disconnected, rowCount>>

\* the store answers the update
RefreshUpdate(p, outcome) ==
    /\ req[p].pc = "updating"
    /\ req[p].op = "refresh"
    /\ LET r1 == [req[p] EXCEPT !.storeOk = outcome = "ok",
                                !.hadRow = req[p].user \in DOMAIN tokens,
                                !.writes = @ + 1]
           r0 == [r1 EXCEPT !.credentials = NoCredentials]
       IN IF ~UpdateFailed(outcome)
          THEN /\ tokens' = Update(tokens, req[p].user, RefreshPayload(req[p].credentials))
               /\ req' = [req EXCEPT ![p] = Done(r1, 200, "", "credentials")]
          ELSE /\ req' = [req EXCEPT ![p] =
                    Done(r0, 500, "Failed to update tokens", "none")]
               /\ UNCHANGED tokens
    /\ UNCHANGED <<oauth2Client, authClient, now, cbRefresh, disconnected, rowCount>>

\* --------------------------------------------------- GET /google/callback
\* bug variant: the exchange is taken to succeed whatever the code
ExchangeNeverFails(code) == FALSE

\* oauth2Client.getToken(code) rejects: the authorization server does not
\* accept the code
ExchangeFails(code) == code = "bad"

\* from the request to the resumption after oauth2Client.getToken(code)
CallbackExchange(p, u, code, a, rt, e) ==
    /\ req[p].pc = "idle"
    /\ LET r1 == [req[p] EXCEPT !.op = "callback", !.user = u, !.code = code]
       IN IF ~Truthy(code)
          THEN /\ a = NULL /\ rt = NULL /\ e = 0
               /\ req' = [req EXCEPT ![p] =
                    Done(r1, 400, "Authorization code is required", "none")]
          ELSE IF ~Truthy(u)
          THEN /\ a = NULL /\ rt = NULL /\ e = 0
               /\ req' = [req EXCEPT ![p] = Done(r1, 400, "User ID is required", "none")]
          ELSE IF ExchangeFails(code)
          THEN /\ a = NULL /\ rt = NULL /\ e = 0
               /\ req' = [req EXCEPT ![p] =
                    Done([r1 EXCEPT !.calls = @ + 1], 500,
                         "Failed to complete OAuth flow", "none")]
          ELSE /\ a \in AccessTokens
               /\ req' = [req EXCEPT ![p] =
                    [r1 EXCEPT !.pc = "upserting", !.calls = @ + 1,
                               !.credentials = [access_token |-> a,
                                                refresh_token |-> rt,
                                                expiry_date |-> e]]]
    /\ UNCHANGED <<tokens, oauth2Client, authClient, now, cbRefresh, disconnected, rowCount>>

\* the store answers the upsert
CallbackUpsert(p, outcome) ==
    /\ req[p].pc = "upserting"
    /\ LET u == req[p].user
           r1 == [req[p] EXCEPT !.storeOk = outcome = "ok",
                                !.hadRow = u \in DOMAIN tokens,
                                !.credentials = NoCredentials,
                                !.writes = @ + 1]
           tbl == Upsert(tokens, u, CallbackPayload(u, req[p].credentials))
       IN IF outcome = "ok"
          THEN /\ tokens' = tbl
               /\ cbRefresh' = [cbRefresh EXCEPT ![u] = tbl[u].refresh_token]
               /\ rowCount' = [rowCount EXCEPT ![u] = RowsAfterUpsert(@)]
               /\ disconnected' = disconnected \ {u}
               /\ authClient' = SetCredentials(req[p].credentials)
               /\ req' = [req EXCEPT ![p] = Done(r1, 200, "", "none")]
          ELSE /\ req' = [req EXCEPT ![p] = Done(r1, 500, "Failed to save tokens", "none")]
               /\ UNCHANGED <<tokens, rowCount, cbRefresh, disconnected, authClient>>
    /\ UNCHANGED <<oauth2Client, now>>

\* --------------------------------------- DELETE /google/disconnect/:userId
Disconnect(p, u, outcome) ==
    /\ req[p].pc = "idle"
    /\ u \in Users
    /\ LET r1 == [req[p] EXCEPT !.op = "disconnect", !.user = u,
                                !.hadRow = u \in DOMAIN tokens,
                                !.storeOk = outcome = "ok",
                                !.again = u \in disconnected,
                                !.writes = @ + 1]
       IN IF outcome = "ok"
          THEN /\ tokens' = Delete(tokens, u)
               /\ rowCount' = [rowCount EXCEPT ![u] = 0]
               /\ disconnected' = disconnected \cup {u}
               /\ req' = [req EXCEPT ![p] = Done(r1, 200, "", "none")]
          ELSE /\ req' = [req EXCEPT ![p] =
                    Done(r1, 500, "Failed to disconnect Google Calendar", "none")]
               /\ UNCHANGED <<tokens, rowCount, disconnected>>
    /\ UNCHANGED <<oauth2Client, authClient, now, cbRefresh>>

\* ------------------------------------------ GET /connection-status/:userId
\* bug variant: the status refreshes a row it finds in need of a refresh
StatusRefreshing(tbl, u, t) ==
    IF u \in DOMAIN tbl /\ Truthy(StatusOf(tbl[u], t).needsRefresh)
    THEN Update(tbl, u, [access_token |-> "a2", expiry_date |-> ToISOString(t + 1)])
    ELSE tbl

\* google_calendar_tokens after getUserConnectionStatusFromDatabase: its one
\* statement on the table is .select("*").eq("user_id", u).single()
StatusStore(tbl, u, t) == tbl

\* the route around getUserConnectionStatusFromDatabase(userId)
ConnectionStatus(p, u, outcome) ==
    /\ req[p].pc = "idle"
    /\ LET r0 == [req[p] EXCEPT !.op = "status", !.user = u]
           r1 == [r0 EXCEPT !.hadRow = u \in DOMAIN tokens,
                            !.storeOk = outcome = "ok"]
           notConnected == [NoResult EXCEPT !.status = 200, !.connected = "false"]
       IN IF ~Truthy(u)
          THEN /\ outcome = "ok"
               /\ req' = [req EXCEPT ![p] =
                    [r0 EXCEPT !.pc = "done", !.result = notConnected]]
          ELSE IF ~Found(u, outcome)
          THEN req' = [req EXCEPT ![p] =
                    [r1 EXCEPT !.pc = "done", !.result = notConnected]]
          ELSE req' = [req EXCEPT ![p] =
                    [r1 EXCEPT !.pc = "done",
                               !.result = [NoResult EXCEPT
                                   !.status = 200,
                                   !.connected = StatusOf(RowOf(u), now).connected,
                                   !.lastSync = StatusOf(RowOf(u), now).lastSync,
                                   !.needsRefresh = StatusOf(RowOf(u), now).needsRefresh]]]
    /\ tokens' = StatusStore(tokens, u, now)
    /\ UNCHANGED <<oauth2Client, authClient, now, cbRefresh, disconnected, rowCount>>

\* ------------------------------------------------------------- environment
\* the response has been delivered; the slot serves the next request
Respond(p) ==
    /\ req[p].pc = "done"
    /\ req' = [req EXCEPT ![p] = Idle]
    /\ UNCHANGED <<tokens, oauth2Client, authClient, now, cbRefresh, disconnected, rowCount>>

Tick ==
    /\ now < MaxTime
    /\ now' = now + 1
    /\ UNCHANGED <<tokens, oauth2Client, authClient, req, cbRefresh, disconnected, rowCount>>

\* the steps of the requests served by slots PS for the users US
Step(PS, US) ==
    \/ \E p \in PS, u \in US \cup {NoUser}, o \in StoreOutcomes :
            ResolveSelect(p, u, o) /\ UNCHANGED <<evVars, mapped>>
    \/ \E p \in PS, ok \in BOOLEAN, a \in AccessTokens \cup {NULL}, e \in ExpiryAt(now) :
            ResolveRefreshed(p, ok, a, e) /\ UNCHANGED <<evVars, mapped>>
    \/ \E p \in PS, o \in StoreOutcomes : ResolveUpdate(p, o) /\ UNCHANGED <<evVars, mapped>>
    \/ \E p \in PS, u \in US, o \in StoreOutcomes : RefreshSelect(p, u, o) /\ UNCHANGED <<evVars, mapped>>
    \/ \E p \in PS, ok \in BOOLEAN, a \in AccessTokens \cup {NULL}, e \in ExpiryAt(now) :
            RefreshRefreshed(p, ok, a, e) /\ UNCHANGED <<evVars, mapped>>
    \/ \E p \in PS, o \in StoreOutcomes : RefreshUpdate(p, o) /\ UNCHANGED <<evVars, mapped>>
    \/ \E p \in PS, u \in US \cup {NoUser}, code \in Codes,
          a \in AccessTokens \cup {NULL}, rt \in RefreshTokens \cup {NULL},
          e \in ExpiryAt(now) :
            CallbackExchange(p, u, code, a, rt, e) /\ UNCHANGED <<evVars, mapped>>
    \/ \E p \in PS, o \in StoreOutcomes : CallbackUpsert(p, o) /\ UNCHANGED <<evVars, mapped>>
    \/ \E p \in PS, u \in US, o \in StoreOutcomes : Disconnect(p, u, o) /\ UNCHANGED <<evVars, mapped>>
    \/ \E p \in PS, u \in US \cup {NoUser}, o \in StoreOutcomes :
            ConnectionStatus(p, u, o) /\ UNCHANGED <<evVars, mapped>>
    \/ \E p \in PS : Respond(p) /\ UNCHANGED <<evVars, mapped>>
    \/ Tick /\ UNCHANGED <<evVars, mapped>>

\* one request at a time, for one user
Next == Step({"p1"}, {"u1"})

Spec == Init /\ [][Next]_vars

\* the steps of the requests that write google_calendar_tokens, served by
\* slots PS for the users US: callbacks, resolutions, refreshes and
\* disconnects, with one value for each token the authorization server issues
PairStep(PS, US) ==
    \/ \E p \in PS, u \in US : ResolveSelect(p, u, "ok") /\ UNCHANGED <<evVars, mapped>>
    \/ \E p \in PS, ok \in BOOLEAN :
            ResolveRefreshed(p, ok, IF ok THEN "a2" ELSE NULL, 0) /\ UNCHANGED <<evVars, mapped>>
    \/ \E p \in PS, o \in StoreOutcomes : ResolveUpdate(p, o) /\ UNCHANGED <<evVars, mapped>>
    \/ \E p \in PS, u \in US : RefreshSelect(p, u, "ok") /\ UNCHANGED <<evVars, mapped>>
    \/ \E p \in PS, ok \in BOOLEAN :
            RefreshRefreshed(p, ok, IF ok THEN "a2" ELSE NULL, 0) /\ UNCHANGED <<evVars, mapped>>
    \/ \E p \in PS, o \in StoreOutcomes : RefreshUpdate(p, o) /\ UNCHANGED <<evVars, mapped>>
    \/ \E p \in PS, u \in US, e \in ExpiryAt(now) :
            CallbackExchange(p, u, "good", "a1", "r1", e) /\ UNCHANGED <<evVars, mapped>>
    \/ \E p \in PS, o \in StoreOutcomes : CallbackUpsert(p, o) /\ UNCHANGED <<evVars, mapped>>
    \/ \E p \in PS, u \in US, o \in StoreOutcomes :
            Disconnect(p, u, o) /\ UNCHANGED <<evVars, mapped>>
    \/ \E p \in PS : Respond(p) /\ UNCHANGED <<evVars, mapped>>
    \/ Tick /\ UNCHANGED <<evVars, mapped>>

\* two requests in flight, for one user
NextPair == PairStep(Procs, {"u1"})

SpecPair == Init /\ [][NextPair]_vars

\* the steps of two kinds of slots for the users US: the slots PS resolve
\* credentials, the slots AS \subseteq PS also serve the callbacks,
\* disconnects and status requests; each refresh is answered with any access
\* token and expiry, so that the writes of two requests can be told apart
RaceStep(PS, AS, US) ==
    \/ \E p \in PS, u \in US : ResolveSelect(p, u, "ok") /\ UNCHANGED <<evVars, mapped>>
    \/ \E p \in PS, ok \in BOOLEAN, a \in AccessTokens \cup {NULL}, e \in ExpiryAt(now) :
            ResolveRefreshed(p, ok, a, e) /\ UNCHANGED <<evVars, mapped>>
    \/ \E p \in PS, o \in StoreOutcomes : ResolveUpdate(p, o) /\ UNCHANGED <<evVars, mapped>>
    \/ \E p \in AS, u \in US, e \in ExpiryAt(now) :
            CallbackExchange(p, u, "good", "a1", "r1", e) /\ UNCHANGED <<evVars, mapped>>
    \/ \E p \in AS : CallbackUpsert(p, "ok") /\ UNCHANGED <<evVars, mapped>>
    \/ \E p \in AS, u \in US : Disconnect(p, u, "ok") /\ UNCHANGED <<evVars, mapped>>
    \/ \E p \in PS, u \in US, o \in StoreOutcomes :
            ConnectionStatus(p, u, o) /\ UNCHANGED <<evVars, mapped>>
    \/ \E p \in PS : Respond(p) /\ UNCHANGED <<evVars, mapped>>
    \/ Tick /\ UNCHANGED <<evVars, mapped>>

\* two requests in flight for one user, one slot serving the callbacks and
\* disconnects
NextRace == RaceStep(Procs, {"p1"}, {"u1"})

SpecRace == Init /\ [][NextRace]_vars

\* --------------------------- token responses that can be told apart
\* expiry_date of the token response that carries access token a: the
\* authorization server issues each access token once, in one response, so
\* the token names the response (0: the response has no expiry_date)
IssuedExpiry(a) == IF a = "a1" THEN 1 ELSE 0

\* the stored form of that expiry
IssuedExpiryStored(a) ==
    IF IssuedExpiry(a) # 0 THEN ToISOString(IssuedExpiry(a)) ELSE NULL

\* callbacks, resolutions, refreshes of the route and disconnects of the
\* slots PS for the users US, every token response being one of the issued
\* pairs
IssuedStep(PS, US) ==
    \/ \E p \in PS, u \in US : ResolveSelect(p, u, "ok") /\ UNCHANGED <<evVars, mapped>>
    \/ \E p \in PS, a \in AccessTokens :
            ResolveRefreshed(p, TRUE, a, IssuedExpiry(a)) /\ UNCHANGED <<evVars, mapped>>
    \/ \E p \in PS, o \in StoreOutcomes : ResolveUpdate(p, o) /\ UNCHANGED <<evVars, mapped>>
    \/ \E p \in PS, u \in US : RefreshSelect(p, u, "ok") /\ UNCHANGED <<evVars, mapped>>
    \/ \E p \in PS, a \in AccessTokens :
            RefreshRefreshed(p, TRUE, a, IssuedExpiry(a)) /\ UNCHANGED <<evVars, mapped>>
    \/ \E p \in PS, o \in StoreOutcomes : RefreshUpdate(p, o) /\ UNCHANGED <<evVars, mapped>>
    \/ \E p \in PS, u \in US, a \in AccessTokens, rt \in {"r1", NULL} :
            CallbackExchange(p, u, "good", a, rt, IssuedExpiry(a))
            /\ UNCHANGED <<evVars, mapped>>
    \/ \E p \in PS, o \in StoreOutcomes : CallbackUpsert(p, o) /\ UNCHANGED <<evVars, mapped>>
    \/ \E p \in PS, u \in US : Disconnect(p, u, "ok") /\ UNCHANGED <<evVars, mapped>>
    \/ \E p \in PS : Respond(p) /\ UNCHANGED <<evVars, mapped>>
    \/ Tick /\ UNCHANGED <<evVars, mapped>>

\* two requests in flight for one user
NextIssued == IssuedStep(Procs, {"u1"})

SpecIssued == Init /\ [][NextIssued]_vars

TypeOK ==
    /\ DOMAIN tokens \subseteq Users
    /\ \A u \in DOMAIN tokens : tokens[u] \in Rows
    /\ now \in 0..MaxTime

\* ========================================================= calendar events
MaxBatch == 2         \* most events a remote calendar holds
MaxSyncTime == 1      \* the clock runs over 0..MaxSyncTime where rows are timestamped

\* "YYYY-MM-DD" of day d of the month the events lie in
IsoDate(d) == "2024-01-0" \o ToString(d)
\* "HH:MM" of a full hour
IsoTime(h) == (IF h < 10 THEN "0" ELSE "") \o ToString(h) \o ":00"

\* event.start of a remote event: a dateTime (local day and hour with the
\* UTC offset of the calendar, in hours) or, for an all-day event, a date
TimedStart(d, h, off) == [kind |-> "dateTime", day |-> d, hour |-> h, offset |-> off]
DateStart(d) == [kind |-> "date", day |-> d, hour |-> 0, offset |-> 0]

\* new Date(event.start.dateTime): the instant, in hours
StartInstant(start) == start.day * 24 + start.hour - start.offset
\* new Date(dateTime).toISOString().split('T'): the UTC day and hour
UtcDay(start) == StartInstant(start) \div 24
UtcHour(start) == StartInstant(start) % 24

\* the events the remote calendar can hold
RemoteTimed == [summary |-> "A", description |-> "x", start |-> TimedStart(2, 10, 0)]
\* 01:00 of day 3 at UTC+2, which is 23:00 of day 2 in UTC
RemoteLate == [summary |-> "A", description |-> NULL, start |-> TimedStart(3, 1, 2)]
RemoteAllDay == [summary |-> NULL, description |-> NULL, start |-> DateStart(2)]
RemoteEvents == {RemoteTimed, RemoteLate, RemoteAllDay}

\* the event objects of a save-events body
DraftExam == [title |-> "A", description |-> "x", event_type |-> "exam",
              due_date |-> IsoDate(2), due_time |-> IsoTime(10),
              confidence_score |-> "0.9", source_text |-> "syllabus"]
\* req.body of save-events: `events` may be missing or no array
SaveBody(isArray, evs) == [isArray |-> isArray, events |-> evs]
SaveBodies == {SaveBody(FALSE, <<>>), SaveBody(TRUE, <<>>),
               SaveBody(TRUE, <<DraftExam>>),
               SaveBody(TRUE, <<DraftExam, DraftExam>>)}
\* req.body.classId of save-events
ClassIds == {"c1"}

\* the values of req.body.eventData of add-event
EventDatas ==
    {NoEventData,
     [NoEventData EXCEPT !.present = TRUE, !.due_date = IsoDate(2)],
     [NoEventData EXCEPT !.present = TRUE, !.title = "A"],
     [NoEventData EXCEPT !.present = TRUE, !.title = "A", !.description = "x",
                         !.due_date = IsoDate(2), !.due_time = IsoTime(10)]}
\* bug variant: one error for every route
RouteErrorGeneric(route) == "Internal server error"

\* the routes that work on the calendar client, and the error each reports
RouteError(route) ==
    CASE route = "calendars" -> "Failed to fetch calendars"
      [] route = "add" -> "Failed to add event to Google Calendar"
      [] route = "sync" -> "Failed to sync events"

\* ------------------------------------------------------ pure computations
\* the elements of a sequence as a bag
SeqToBag(sq) ==
    [r \in {sq[i] : i \in DOMAIN sq} |-> Cardinality({i \in DOMAIN sq : sq[i] = r})]

\* a row without its timestamp column
NoTimestamp(row) == [c \in DOMAIN row \ {"created_at"} |-> row[c]]
\* the rows of user u in a table, without their timestamps
RowsOf(tbl, u) ==
    LET mine == {r \in BagToSet(tbl) : r.user_id = u}
    IN [x \in {NoTimestamp(r) : r \in mine} |->
            BagCardinality([r \in {y \in mine : NoTimestamp(y) = x} |-> tbl[r]])]

\* bug variant: the row takes what the remote event carries where it carries
\* it (an extended property naming a class, a type, a confidence)
ToInternalAsListed(u, event, t) ==
    LET timed == event.start.kind = "dateTime"
    IN [user_id |-> u,
        class_id |-> JsOr(event.description, NULL),
        title |-> JsOr(event.summary, "Untitled Event"),
        description |-> JsOr(event.description, ""),
        event_type |-> JsOr(event.summary, "google_calendar"),
        due_date |-> IF timed THEN IsoDate(UtcDay(event.start))
                     ELSE IsoDate(event.start.day),
        due_time |-> IF timed THEN IsoTime(UtcHour(event.start)) ELSE NULL,
        confidence_score |-> IF timed THEN "1.0" ELSE "0.5",
        source_text |-> "Google Calendar Event: " \o
                        (IF event.summary = NULL THEN "undefined" ELSE event.summary),
        created_at |-> ToISOString(t)]

\* the row syncEventsToDatabaseFromDatabase builds from a remote event at t
ToInternal(u, event, t) ==
    LET timed == event.start.kind = "dateTime"
    IN [user_id |-> u,
        class_id |-> NULL,
        title |-> JsOr(event.summary, "Untitled Event"),
        description |-> JsOr(event.description, ""),
        event_type |-> "google_calendar",
        due_date |-> IF timed THEN IsoDate(UtcDay(event.start))
                     ELSE IsoDate(event.start.day),
        due_time |-> IF timed THEN IsoTime(UtcHour(event.start)) ELSE NULL,
        confidence_score |-> "1.0",
        source_text |-> "Google Calendar Event: " \o
                        (IF event.summary = NULL THEN "undefined" ELSE event.summary),
        created_at |-> ToISOString(t)]

\* events.map(...) of the pull
EventsToInsert(u, items, t) == [i \in DOMAIN items |-> ToInternal(u, items[i], t)]

\* the row save-events builds from an event object of the body at t
ToSaved(u, classId, event, t) ==
    [user_id |-> u,
     class_id |-> JsOr(classId, NULL),
     title |-> event.title,
     description |-> event.description,
     event_type |-> event.event_type,
     due_date |-> event.due_date,
     due_time |-> event.due_time,
     confidence_score |-> event.confidence_score,
     source_text |-> event.source_text,
     created_at |-> ToISOString(t)]

\* events.map(...) of save-events
SavedToInsert(u, classId, body, t) ==
    [i \in DOMAIN body |-> ToSaved(u, classId, body[i], t)]

\* bug variant: due_date is not looked at
MissingFieldsNoDate(eventData) == ~eventData.present \/ ~Truthy(eventData.title)

\* if (!eventData || !eventData.title || !eventData.due_date)
MissingFields(eventData) ==
    ~eventData.present \/ ~Truthy(eventData.title) \/ ~Truthy(eventData.due_date)

\* the day a "YYYY-MM-DD" string names, the hour an "HH:MM" string names
DayOf(s) == CHOOSE d \in 1..9 : IsoDate(d) = s
HourOf(s) == CHOOSE h \in 0..23 : IsoTime(h) = s

\* variant: "<date>T<time>" is read as UTC
ParseDateTimeUtc(date, time, zone) == DayOf(date) * 24 + HourOf(time)

\* new Date("<date>T<time>"): a date-time without offset is read as local
\* time; the instant, in hours, where local time is UTC + zone
ParseDateTime(date, time, zone) == DayOf(date) * 24 + HourOf(time) - zone
\* new Date("<date>"): the date-only form is read as UTC midnight
ParseDate(date) == DayOf(date) * 24
\* date.toISOString(): the instant as a UTC dateTime
ToUtcDateTime(instant) == TimedStart(instant \div 24, instant % 24, 0)

\* formatEventForGoogleCalendar(eventData) in a process whose local time is
\* UTC + zone
FormatEvent(eventData, zone) ==
    LET dueDate == ParseDate(eventData.due_date)
        startTime == IF Truthy(eventData.due_time)
                     THEN ParseDateTime(eventData.due_date, eventData.due_time, zone)
                     ELSE dueDate
        endTime == IF Truthy(eventData.due_time)
                   THEN startTime + 1
                   ELSE dueDate + 24
    IN [summary |-> eventData.title,
        description |-> JsOr(eventData.description, ""),
        location |-> JsOr(eventData.location, ""),
        start |-> [dateTime |-> ToUtcDateTime(startTime), timeZone |-> zone],
        end |-> [dateTime |-> ToUtcDateTime(endTime), timeZone |-> zone],
        reminders |-> [useDefault |-> FALSE,
                       overrides |-> <<[method |-> "email", minutes |-> 24 * 60],
                                       [method |-> "popup", minutes |-> 30]>>]]

\* formatEventForGoogleCalendar(eventData) on the server, the fields a pull
\* reads back
FormatEventForGoogleCalendar(eventData) ==
    LET event == FormatEvent(eventData, ServerOffset)
    IN [summary |-> event.summary,
        description |-> event.description,
        start |-> event.start.dateTime]

\* ------------------------------------------------------------ store calls
\* bug variant: the conflict target leaves out the owner of the row
ConflictKeyNoUser(row) == <<row.title, row.due_date>>

\* onConflict: "user_id,title,due_date"
ConflictKey(row) == <<row.user_id, row.title, row.due_date>>
\* the unique constraint of calendar_events
UniqueKey(row) == <<row.user_id, row.title, row.due_date>>

\* bug variant: the rows of a pull are added without conflict handling
UpsertEventsAppend(tbl, batch) == tbl (+) SeqToBag(batch)

\* variant: the pull mirrors the remote calendar, the rows of the user that
\* the batch does not carry being deleted
UpsertEventsMirror(tbl, batch) ==
    LET owners == {batch[i].user_id : i \in DOMAIN batch}
        kept == {r \in BagToSet(tbl) : r.user_id \notin owners}
    IN [r \in kept |-> tbl[r]] (+) SeqToBag(batch)

\* .upsert(batch, {onConflict}) is carried out unless two rows of the batch
\* conflict with each other (the store refuses to rewrite a row twice in one
\* statement)
UpsertOk(tbl, batch) ==
    \A i, j \in DOMAIN batch : ConflictKey(batch[i]) = ConflictKey(batch[j]) => i = j
\* the table after the upsert: a row conflicting with a row of the batch is
\* rewritten by it (the batch carries every column), the other rows of the
\* batch are added
UpsertEvents(tbl, batch) ==
    LET keys == {ConflictKey(batch[i]) : i \in DOMAIN batch}
        kept == {r \in BagToSet(tbl) : ConflictKey(r) \notin keys}
    IN [r \in kept |-> tbl[r]] (+) SeqToBag(batch)

\* bug variant: the table accepts any row
InsertOkUnchecked(tbl, batch) == TRUE

\* .insert(batch) is carried out unless a row would repeat the unique key of
\* a stored row or of another row of the batch
InsertOk(tbl, batch) ==
    /\ \A i \in DOMAIN batch :
          \A r \in BagToSet(tbl) : UniqueKey(r) # UniqueKey(batch[i])
    /\ \A i, j \in DOMAIN batch : UniqueKey(batch[i]) = UniqueKey(batch[j]) => i = j
InsertEvents(tbl, batch) == tbl (+) SeqToBag(batch)

\* .from(table).select("*").eq("user_id", u)
SelectEvents(tbl, u) ==
    [r \in {x \in BagToSet(tbl) : x.user_id = u} |-> tbl[r]]

\* the remote calendar with one more event, kept in start order
InsertSorted(sq, e) ==
    LET k == Cardinality({i \in DOMAIN sq :
                 StartInstant(sq[i].start) <= StartInstant(e.start)})
    IN SubSeq(sq, 1, k) \o <<e>> \o SubSeq(sq, k + 1, Len(sq))
\* the remote calendar without its i-th event
RemoveAt(sq, i) == SubSeq(sq, 1, i - 1) \o SubSeq(sq, i + 1, Len(sq))

\* ------------------------------------------------- the calendar client
\* the two ways getUserTokensFromDatabase finds no usable credential
NoCredentialErrors == {"No Google tokens found in database",
                       "Token expired and no refresh token available"}

\* variant: the status follows the cause, a missing credential being 404
CatchStatusByCause(details) == IF details \in NoCredentialErrors THEN 404 ELSE 500

\* res.status(500) of the catch block of a route, whatever was thrown
CatchStatus(details) == 500

CallDone(c, status, error, details) ==
    [c EXCEPT !.pc = "done", !.status = status, !.error = error, !.details = details]

\* a route calls getCalendarClientFromDatabase(userId): the step of
\* getUserTokensFromDatabase up to the resumption after its select
ClientStart(p, u, outcome, route, eventData) ==
    /\ call[p].route = "none"
    /\ u \in Users
    /\ ResolveSelect(p, u, outcome)
    /\ call' = [call EXCEPT ![p] =
            [NoCall EXCEPT !.route = route, !.pc = "resolving", !.user = u,
                           !.eventData = eventData]]
    /\ UNCHANGED <<events, gcalEvents, remote, lastPull>>

\* getUserTokensFromDatabase has settled: its error goes to the catch of the
\* route, its result is set on the shared client and the remote call is sent
ClientReady(p) ==
    /\ call[p].pc = "resolving"
    /\ req[p].pc = "done"
    /\ LET resolved == IF req[p].result.returns = "tokenData"
                       THEN req[p].tokenData ELSE req[p].credentials
       IN IF req[p].result.returns = "none"
          THEN /\ call' = [call EXCEPT ![p] =
                      CallDone(call[p], CatchStatus(req[p].result.error),
                               RouteError(call[p].route), req[p].result.error)]
               /\ UNCHANGED oauth2Client
          ELSE /\ oauth2Client' = SetCredentials(resolved)
               /\ call' = [call EXCEPT ![p] =
                      [call[p] EXCEPT !.pc = "calling",
                                      !.auth = resolved.access_token,
                                      !.authRefresh =
                                          SetCredentials(resolved).refresh_token,
                                      !.remoteCalls = @ + 1]]
    /\ UNCHANGED <<tokens, authClient, now, req, cbRefresh, disconnected,
                   rowCount, events, gcalEvents, remote, lastPull>>

\* ------------------------------------------------- GET /calendars/:userId
ListCalendars(p, u, outcome) == ClientStart(p, u, outcome, "calendars", NoEventData)

\* calendar.calendarList.list answers
CalendarsListed(p, ok) ==
    /\ call[p].route = "calendars"
    /\ call[p].pc = "calling"
    /\ call' = [call EXCEPT ![p] =
            IF ok THEN CallDone(call[p], 200, "", "")
            ELSE CallDone(call[p], 500, RouteError("calendars"), "remote")]
    /\ UNCHANGED <<tokens, oauth2Client, authClient, now, req, cbRefresh,
                   disconnected, rowCount, events, gcalEvents, remote, lastPull>>

\* -------------------------------- POST /add-to-google-calendar/:userId
\* bug variant: the pushed event is also stored locally
LocalAfterPushSaved(tbl, eventData) ==
    tbl (+) SetToBag({[title |-> eventData.title, due_date |-> eventData.due_date]})

\* the events table after the handler: it sends the event to the remote
\* calendar only
LocalAfterPush(tbl, eventData) == tbl

AddEvent(p, u, outcome, eventData) ==
    IF MissingFields(eventData)
    THEN /\ call[p].route = "none"
         /\ req[p].pc = "idle"
         /\ u \in Users
         /\ outcome = "ok"
         /\ call' = [call EXCEPT ![p] =
                CallDone([NoCall EXCEPT !.route = "add", !.user = u,
                                        !.eventData = eventData], 400,
                    "Missing required fields: eventData.title and eventData.due_date",
                    "")]
         /\ UNCHANGED <<tokens, oauth2Client, authClient, now, req, cbRefresh,
                        disconnected, rowCount, events, gcalEvents, remote, lastPull>>
    ELSE ClientStart(p, u, outcome, "add", eventData)

\* calendar.events.insert answers
EventInserted(p, ok) ==
    /\ call[p].route = "add"
    /\ call[p].pc = "calling"
    /\ LET u == call[p].user
       IN IF ok
          THEN /\ Len(remote[u]) < MaxBatch
               /\ remote' = [remote EXCEPT ![u] =
                      InsertSorted(@, FormatEventForGoogleCalendar(call[p].eventData))]
               /\ lastPull' = NoPull
               /\ call' = [call EXCEPT ![p] = CallDone(call[p], 200, "", "")]
          ELSE /\ call' = [call EXCEPT ![p] =
                      CallDone(call[p], 500, RouteError("add"), "remote")]
               /\ UNCHANGED <<remote, lastPull>>
    /\ events' = LocalAfterPush(events, call[p].eventData)
    /\ UNCHANGED <<tokens, oauth2Client, authClient, now, req, cbRefresh,
                   disconnected, rowCount, gcalEvents>>

\* ------------------------------------------- POST /sync-events/:userId
SyncEvents(p, u, outcome) == ClientStart(p, u, outcome, "sync", NoEventData)

\* calendar.events.list answers with the events of the window asked for
\* (every modelled event lies in it); the rows are built and the upsert sent
EventsListed(p, ok) ==
    /\ call[p].route = "sync"
    /\ call[p].pc = "calling"
    /\ LET u == call[p].user
       IN call' = [call EXCEPT ![p] =
            IF ok
            THEN [call[p] EXCEPT !.pc = "upserting",
                                 !.items = remote[u],
                                 !.batch = EventsToInsert(u, remote[u], now),
                                 !.eventWrites = @ + 1]
            ELSE CallDone(call[p], 500, RouteError("sync"), "remote")]
    /\ UNCHANGED <<tokens, oauth2Client, authClient, now, req, cbRefresh,
                   disconnected, rowCount, events, gcalEvents, remote, lastPull>>

\* bug variant: the error of the upsert is not looked at
SyncResponseIgnoringError(c, stored) ==
    [CallDone(c, 200, "", "") EXCEPT !.syncedCount = Len(c.items)]

\* what sync-events answers once the upsert has settled: insertError is
\* thrown into the catch of the route, else syncedCount is events.length
SyncResponse(c, stored) ==
    IF stored
    THEN [CallDone(c, 200, "", "") EXCEPT !.syncedCount = Len(c.items)]
    ELSE CallDone(c, 500, RouteError("sync"), "Failed to sync events to database")

\* the store answers the upsert
SyncUpserted(p, outcome) ==
    /\ call[p].route = "sync"
    /\ call[p].pc = "upserting"
    /\ LET u == call[p].user
           tbl == UpsertEvents(events, call[p].batch)
           stored == outcome = "ok" /\ UpsertOk(events, call[p].batch)
           same == lastPull.valid /\ lastPull.user = u
                   /\ lastPull.items = call[p].items
           c == [call[p] EXCEPT !.answered = outcome = "ok",
                                !.stored = stored,
                                !.repeat = stored /\ same,
                                !.prevAt = IF stored /\ same THEN lastPull.at ELSE -1]
       IN /\ call' = [call EXCEPT ![p] = SyncResponse(c, stored)]
          /\ IF stored
             THEN /\ events' = tbl
                  /\ lastPull' = [valid |-> TRUE, user |-> u, at |-> now,
                                  items |-> call[p].items, rows |-> RowsOf(tbl, u)]
             ELSE UNCHANGED <<events, lastPull>>
    /\ UNCHANGED <<tokens, oauth2Client, authClient, now, req, cbRefresh,
                   disconnected, rowCount, gcalEvents, remote>>

\* ------------------------------------------- POST /save-events/:userId
SaveEvents(p, u, body, classId, outcome) ==
    /\ call[p].route = "none"
    /\ req[p].pc = "idle"
    /\ u \in Users
    /\ LET c == [NoCall EXCEPT !.route = "save", !.user = u]
           batch == SavedToInsert(u, classId, body.events, now)
           c1 == [c EXCEPT !.batch = batch, !.eventWrites = @ + 1,
                           !.answered = outcome = "ok"]
       IN IF ~body.isArray
          THEN /\ outcome = "ok"
               /\ call' = [call EXCEPT ![p] =
                      CallDone(c, 400, "Events array is required", "")]
               /\ UNCHANGED <<events, lastPull>>
          ELSE IF outcome = "ok" /\ InsertOk(events, batch)
          THEN /\ events' = InsertEvents(events, batch)
               /\ lastPull' = NoPull
               /\ call' = [call EXCEPT ![p] =
                      [CallDone(c1, 200, "", "") EXCEPT !.returned = SeqToBag(batch),
                                                        !.stored = TRUE]]
          ELSE /\ call' = [call EXCEPT ![p] =
                      CallDone(c1, 500, "Failed to save events", "")]
               /\ UNCHANGED <<events, lastPull>>
    /\ UNCHANGED <<tokens, oauth2Client, authClient, now, req, cbRefresh,
                   disconnected, rowCount, gcalEvents, remote>>

\* ------------------------------------------- GET /synced-events/:userId
SyncedEvents(p, u, outcome) ==
    /\ call[p].route = "none"
    /\ req[p].pc = "idle"
    /\ u \in Users
    /\ LET c == [NoCall EXCEPT !.route = "synced", !.user = u,
                               !.answered = outcome = "ok"]
       IN call' = [call EXCEPT ![p] =
            IF outcome = "ok"
            THEN [CallDone(c, 200, "", "") EXCEPT
                      !.returned = SelectEvents(gcalEvents, u)]
            ELSE CallDone(c, 500, "Failed to fetch synced events", "")]
    /\ UNCHANGED <<tokens, oauth2Client, authClient, now, req, cbRefresh,
                   disconnected, rowCount, events, gcalEvents, remote, lastPull>>

\* ------------------------------------------- GET /google/tokens/:userId
GetTokens(p, u, outcome) ==
    /\ call[p].route = "none"
    /\ req[p].pc = "idle"
    /\ u \in Users
    /\ LET c == [NoCall EXCEPT !.route = "tokens", !.user = u,
                               !.answered = outcome = "ok"]
       IN call' = [call EXCEPT ![p] =
            IF Found(u, outcome)
            THEN [CallDone(c, 200, "", "") EXCEPT !.auth = RowOf(u).access_token,
                                                  !.stored = TRUE]
            ELSE CallDone(c, 404, "No tokens found", "")]
    /\ UNCHANGED <<tokens, oauth2Client, authClient, now, req, cbRefresh,
                   disconnected, rowCount, events, gcalEvents, remote, lastPull>>

\* ------------------------------------------------------------ environment
\* the response of a calendar route has been delivered
CallRespond(p) ==
    /\ call[p].pc = "done"
    /\ call' = [call EXCEPT ![p] = NoCall]
    /\ req' = [req EXCEPT ![p] = Idle]
    /\ UNCHANGED <<tokens, oauth2Client, authClient, now, cbRefresh,
                   disconnected, rowCount, events, gcalEvents, remote, lastPull>>

\* the owner of a calendar adds an event to it
RemoteAdd(u, e) ==
    /\ Len(remote[u]) < MaxBatch
    /\ remote' = [remote EXCEPT ![u] = InsertSorted(@, e)]
    /\ lastPull' = NoPull
    /\ UNCHANGED <<tokens, oauth2Client, authClient, now, req, cbRefresh,
                   disconnected, rowCount, events, gcalEvents, call>>

\* the owner of a calendar removes its i-th event
RemoteRemove(u, i) ==
    /\ i \in DOMAIN remote[u]
    /\ remote' = [remote EXCEPT ![u] = RemoveAt(@, i)]
    /\ lastPull' = NoPull
    /\ UNCHANGED <<tokens, oauth2Client, authClient, now, req, cbRefresh,
                   disconnected, rowCount, events, gcalEvents, call>>

\* the steps of the routes that read and write calendar_events, served by
\* slots PS for the users US, whose row (once the callback has stored it)
\* carries no expiry_date
SyncStep(PS, US) ==
    \/ \E p \in PS, u \in US, o \in StoreOutcomes, d \in EventDatas :
            AddEvent(p, u, o, d) /\ UNCHANGED mapped
    \/ \E p \in PS, u \in US, o \in StoreOutcomes : SyncEvents(p, u, o) /\ UNCHANGED mapped
    \/ \E p \in PS : ClientReady(p) /\ UNCHANGED mapped
    \/ \E p \in PS, ok \in BOOLEAN : EventInserted(p, ok) /\ UNCHANGED mapped
    \/ \E p \in PS, ok \in BOOLEAN : EventsListed(p, ok) /\ UNCHANGED mapped
    \/ \E p \in PS, o \in StoreOutcomes : SyncUpserted(p, o) /\ UNCHANGED mapped
    \/ \E p \in PS, u \in US, b \in SaveBodies, c \in ClassIds, o \in StoreOutcomes :
            SaveEvents(p, u, b, c, o) /\ UNCHANGED mapped
    \/ \E p \in PS, u \in US, o \in StoreOutcomes : SyncedEvents(p, u, o) /\ UNCHANGED mapped
    \/ \E p \in PS : CallRespond(p) /\ UNCHANGED mapped
    \/ \E u \in US, e \in RemoteEvents : RemoteAdd(u, e) /\ UNCHANGED mapped
    \/ \E u \in US, i \in 1..MaxBatch : RemoteRemove(u, i) /\ UNCHANGED mapped
    \/ \E p \in PS, u \in US :
            /\ call[p].route = "none"
            /\ CallbackExchange(p, u, "good", "a1", "r1", 0)
            /\ UNCHANGED <<evVars, mapped>>
    \/ \E p \in PS : CallbackUpsert(p, "ok") /\ UNCHANGED <<evVars, mapped>>
    \/ \E p \in PS : call[p].route = "none" /\ Respond(p) /\ UNCHANGED <<evVars, mapped>>
    \/ now < MaxSyncTime /\ Tick /\ UNCHANGED <<evVars, mapped>>

NextSync == SyncStep({"p1"}, {"u1"})

SpecSync == Init /\ [][NextSync]_vars

\* the steps of the routes that work on the calendar client or on the
\* credential row, served by slots PS for the users US, with the callbacks
\* that bring the row into each state
RouteStep(PS, US) ==
    \/ \E p \in PS, u \in US, o \in StoreOutcomes : ListCalendars(p, u, o) /\ UNCHANGED mapped
    \/ \E p \in PS, u \in US, o \in StoreOutcomes, d \in EventDatas :
            AddEvent(p, u, o, d) /\ UNCHANGED mapped
    \/ \E p \in PS, u \in US, o \in StoreOutcomes : SyncEvents(p, u, o) /\ UNCHANGED mapped
    \/ \E p \in PS : ClientReady(p) /\ UNCHANGED mapped
    \/ \E p \in PS, ok \in BOOLEAN : CalendarsListed(p, ok) /\ UNCHANGED mapped
    \/ \E p \in PS, ok \in BOOLEAN : EventInserted(p, ok) /\ UNCHANGED mapped
    \/ \E p \in PS, ok \in BOOLEAN : EventsListed(p, ok) /\ UNCHANGED mapped
    \/ \E p \in PS, o \in StoreOutcomes : SyncUpserted(p, o) /\ UNCHANGED mapped
    \/ \E p \in PS, u \in US, o \in StoreOutcomes : GetTokens(p, u, o) /\ UNCHANGED mapped
    \/ \E p \in PS : CallRespond(p) /\ UNCHANGED mapped
    \/ \E p \in PS, ok \in BOOLEAN, e \in ExpiryAt(now) :
            ResolveRefreshed(p, ok, IF ok THEN "a2" ELSE NULL, e) /\ UNCHANGED <<evVars, mapped>>
    \/ \E p \in PS, o \in StoreOutcomes : ResolveUpdate(p, o) /\ UNCHANGED <<evVars, mapped>>
    \/ \E p \in PS, u \in US, o \in StoreOutcomes :
            call[p].route = "none" /\ RefreshSelect(p, u, o) /\ UNCHANGED <<evVars, mapped>>
    \/ \E p \in PS, ok \in BOOLEAN, e \in ExpiryAt(now) :
            RefreshRefreshed(p, ok, IF ok THEN "a2" ELSE NULL, e) /\ UNCHANGED <<evVars, mapped>>
    \/ \E p \in PS, o \in StoreOutcomes : RefreshUpdate(p, o) /\ UNCHANGED <<evVars, mapped>>
    \/ \E p \in PS, u \in US, rt \in {"r1", NULL}, e \in ExpiryAt(now) :
            /\ call[p].route = "none"
            /\ CallbackExchange(p, u, "good", "a1", rt, e)
            /\ UNCHANGED <<evVars, mapped>>
    \/ \E p \in PS : CallbackUpsert(p, "ok") /\ UNCHANGED <<evVars, mapped>>
    \/ \E p \in PS : call[p].route = "none" /\ Respond(p) /\ UNCHANGED <<evVars, mapped>>
    \/ Tick /\ UNCHANGED <<evVars, mapped>>

NextRoutes == RouteStep({"p1"}, {"u1"})

SpecRoutes == Init /\ [][NextRoutes]_vars

\* the tokens the authorization server issues for the grant of user u
AccessOf(u) == IF u = "u1" THEN "a1" ELSE "a2"
RefreshOf(u) == IF u = "u1" THEN "r1" ELSE "r2"

\* the steps of the requests that go through the shared client, served by
\* slots PS for the users US: list-calendars with the resolution and refresh
\* inside it, and the callbacks that store each user's row; the
\* authorization server answers every request with the tokens of the user
\* whose code or refresh token it was sent
SharedStep(PS, US) ==
    \/ \E p \in PS, u \in US : ListCalendars(p, u, "ok") /\ UNCHANGED mapped
    \/ \E p \in PS : ClientReady(p) /\ UNCHANGED mapped
    \/ \E p \in PS : CalendarsListed(p, TRUE) /\ UNCHANGED mapped
    \/ \E p \in PS : CallRespond(p) /\ UNCHANGED mapped
    \/ \E p \in PS :
            /\ ResolveRefreshed(p, TRUE, AccessOf(req[p].user), 0)
            /\ UNCHANGED <<evVars, mapped>>
    \/ \E p \in PS : ResolveUpdate(p, "ok") /\ UNCHANGED <<evVars, mapped>>
    \/ \E p \in PS, u \in US :
            /\ call[p].route = "none"
            /\ u \notin DOMAIN tokens
            /\ CallbackExchange(p, u, "good", AccessOf(u), RefreshOf(u), now + 1)
            /\ UNCHANGED <<evVars, mapped>>
    \/ \E p \in PS : CallbackUpsert(p, "ok") /\ UNCHANGED <<evVars, mapped>>
    \/ \E p \in PS : call[p].route = "none" /\ Respond(p) /\ UNCHANGED <<evVars, mapped>>
    \/ Tick /\ UNCHANGED <<evVars, mapped>>

\* two requests in flight, for two users
NextShared == SharedStep(Procs, Users)

SpecShared == Init /\ [][NextShared]_vars

\* the steps of the requests that write google_calendar_tokens or
\* calendar_events, served by slots PS for the users US: callbacks (the users
\* connect at time 0), disconnects, pulls with the resolution and refresh
\* inside them, and save-events; the calendars of the users hold the same
\* event and the saved event has its title and date, so that rows of
\* different users differ in user_id only
IsolationStep(PS, US) ==
    \/ \E p \in PS, u \in US : SyncEvents(p, u, "ok") /\ UNCHANGED mapped
    \/ \E p \in PS : ClientReady(p) /\ UNCHANGED mapped
    \/ \E p \in PS : EventsListed(p, TRUE) /\ UNCHANGED mapped
    \/ \E p \in PS, o \in StoreOutcomes : SyncUpserted(p, o) /\ UNCHANGED mapped
    \/ \E p \in PS, u \in US :
            SaveEvents(p, u, SaveBody(TRUE, <<DraftExam>>), "c1", "ok") /\ UNCHANGED mapped
    \/ \E p \in PS : CallRespond(p) /\ UNCHANGED mapped
    \/ \E u \in US : remote[u] = <<>> /\ RemoteAdd(u, RemoteTimed) /\ UNCHANGED mapped
    \/ \E p \in PS :
            /\ ResolveRefreshed(p, TRUE, AccessOf(req[p].user), 0)
            /\ UNCHANGED <<evVars, mapped>>
    \/ \E p \in PS : ResolveUpdate(p, "ok") /\ UNCHANGED <<evVars, mapped>>
    \/ \E p \in PS, u \in US :
            /\ call[p].route = "none"
            /\ u \notin DOMAIN tokens /\ now = 0
            /\ CallbackExchange(p, u, "good", AccessOf(u), RefreshOf(u), now + 1)
            /\ UNCHANGED <<evVars, mapped>>
    \/ \E p \in PS : CallbackUpsert(p, "ok") /\ UNCHANGED <<evVars, mapped>>
    \/ \E p \in PS, u \in US :
            call[p].route = "none" /\ Disconnect(p, u, "ok") /\ UNCHANGED <<evVars, mapped>>
    \/ \E p \in PS : call[p].route = "none" /\ Respond(p) /\ UNCHANGED <<evVars, mapped>>
    \/ Tick /\ UNCHANGED <<evVars, mapped>>

\* one request at a time, for either of two users
NextIsolation == IsolationStep({"p1"}, Users)

SpecIsolation == Init /\ [][NextIsolation]_vars

\* ------------------------------------------------------- the event mapper
MaxOffset == 2        \* local time is UTC - MaxOffset .. UTC + MaxOffset

\* the zones the process can run in, and a remote calendar can be kept in
Zones == (0 - MaxOffset)..MaxOffset
\* the internal events handed to formatEventForGoogleCalendar
Drafts ==
    {[NoEventData EXCEPT !.present = TRUE, !.title = "A", !.description = d,
                         !.location = l, !.due_date = IsoDate(day), !.due_time = t] :
        d \in {NULL, "x"}, l \in {NULL, "Room 1"}, day \in {1, 2},
        t \in {NULL, IsoTime(0), IsoTime(14), IsoTime(23)}}
\* the remote events a pull maps
Listed ==
    {[summary |-> sm, description |-> d, start |-> st] :
        sm \in {NULL, "A"}, d \in {NULL, "x"},
        st \in {DateStart(2)} \cup
               {TimedStart(day, h, off) : day \in {2, 3}, h \in {0, 10, 23},
                                          off \in Zones}}

\* the process starts in one of the zones
InitMap ==
    /\ tokens = [u \in {} |-> NoRow]
    /\ oauth2Client = NoClientCreds
    /\ authClient = NoClientCreds
    /\ now = 0
    /\ req = [p \in Procs |-> Idle]
    /\ cbRefresh = [u \in Users |-> NULL]
    /\ disconnected = {}
    /\ rowCount = [u \in Users |-> 0]
    /\ events = EmptyBag
    /\ gcalEvents = EmptyBag
    /\ remote = [u \in Users |-> <<>>]
    /\ call = [p \in Procs |-> NoCall]
    /\ lastPull = NoPull
    /\ \E z \in Zones : mapped = [NoMapping EXCEPT !.zone = z]

\* formatEventForGoogleCalendar is applied to an internal event
MapToRemote(d) ==
    /\ mapped.fn = "none"
    /\ mapped' = [mapped EXCEPT !.fn = "toRemote", !.arg = <<d>>,
                                !.ret = <<FormatEvent(d, mapped.zone)>>]
    /\ UNCHANGED <<tokens, oauth2Client, authClient, now, req, cbRefresh,
                   disconnected, rowCount, evVars>>

\* the map callback of the pull is applied to a listed event, for user u
MapToInternal(u, e) ==
    /\ mapped.fn = "none"
    /\ mapped' = [mapped EXCEPT !.fn = "toInternal", !.user = u, !.arg = <<e>>,
                                !.ret = <<ToInternal(u, e, now)>>]
    /\ UNCHANGED <<tokens, oauth2Client, authClient, now, req, cbRefresh,
                   disconnected, rowCount, evVars>>

\* the mapper has returned
MapReturn ==
    /\ mapped.fn # "none"
    /\ mapped' = [NoMapping EXCEPT !.zone = mapped.zone]
    /\ UNCHANGED <<tokens, oauth2Client, authClient, now, req, cbRefresh,
                   disconnected, rowCount, evVars>>

NextMap ==
    \/ \E d \in Drafts : MapToRemote(d)
    \/ \E u \in Users, e \in Listed : MapToInternal(u, e)
    \/ MapReturn

SpecMap == InitMap /\ [][NextMap]_vars

EventsTypeOK ==
    /\ \A p \in Procs : call[p].route \in
            {"none", "calendars", "add", "sync", "save", "synced", "tokens"}
    /\ \A u \in Users : Len(remote[u]) <= MaxBatch
    /\ gcalEvents = EmptyBag

\* =================================================================== claims
\* slot p starts a request `op` in this step (the step runs the handler up
\* to the resumption after its first await)
Starts(p, op) == req[p].pc = "idle" /\ req'[p].op = op
\* slot p's request `op` leaves program point `pc` in this step
Leaves(p, op, pc) == req[p].op = op /\ req[p].pc = pc /\ req'[p].pc # pc

\* an expiry_date column and a token response's expiry_date denote the
\* same instant, or are both absent
SameExpiry(iso, ms) == IF ms = 0 THEN iso = NULL ELSE Truthy(iso) /\ DateParse(iso) = ms

\* C1: getUserTokensFromDatabase for a user without a row fails with "No
\* Google tokens found in database": it returns no credential, sends nothing
\* to the authorization server and leaves the table and the client alone.
C1_NotConnected ==
    [][\A p \in Procs :
        (/\ Starts(p, "resolve")
         /\ req'[p].user \in Users
         /\ req'[p].user \notin DOMAIN tokens)
        => /\ req'[p].pc = "done"
           /\ req'[p].result.error = "No Google tokens found in database"
           /\ req'[p].result.returns = "none"
           /\ req'[p].calls = 0
           /\ req'[p].writes = 0
           /\ tokens' = tokens
           /\ oauth2Client' = oauth2Client]_vars

C1_Witness ==
    \E p \in Procs :
        /\ req[p].op = "resolve" /\ req[p].pc = "done"
        /\ req[p].user \in Users /\ ~req[p].hadRow /\ req[p].storeOk
        /\ req[p].result.error = "No Google tokens found in database"

\* C2: resolving a row whose expiry_date lies in the past and whose
\* refresh_token is absent fails with "Token expired and no refresh token
\* available" at once: no call to the authorization server, no write.
C2_ExpiredNoRefresh ==
    [][\A p \in Procs :
        (/\ Starts(p, "resolve")
         /\ req'[p].storeOk
         /\ req'[p].user \in DOMAIN tokens
         /\ Truthy(tokens[req'[p].user].expiry_date)
         /\ DateParse(tokens[req'[p].user].expiry_date) < now
         /\ tokens[req'[p].user].refresh_token = NULL)
        => /\ req'[p].pc = "done"
           /\ req'[p].result.error = "Token expired and no refresh token available"
           /\ req'[p].result.returns = "none"
           /\ req'[p].calls = 0
           /\ req'[p].writes = 0
           /\ tokens' = tokens
           /\ oauth2Client' = oauth2Client]_vars

C2_Witness ==
    \E p \in Procs :
        /\ req[p].op = "resolve" /\ req[p].pc = "done"
        /\ req[p].hadRow /\ req[p].storeOk
        /\ req[p].result.error = "Token expired and no refresh token available"
        /\ tokens[req[p].user].refresh_token = NULL
        /\ DateParse(tokens[req[p].user].expiry_date) < now

\* C3 as stated: a row whose expiry_date equals the current time is
\* treated as expired, so that a refresh is attempted.
C3_BoundaryExpired ==
    [][\A p \in Procs :
        (/\ Starts(p, "resolve")
         /\ req'[p].storeOk
         /\ req'[p].user \in DOMAIN tokens
         /\ Truthy(tokens[req'[p].user].expiry_date)
         /\ DateParse(tokens[req'[p].user].expiry_date) = now
         /\ tokens[req'[p].user].refresh_token # NULL)
        => /\ req'[p].pc = "refreshing"
           /\ req'[p].calls = 1]_vars

\* C3 amended: the comparison is exclusive.  A row whose expiry_date equals
\* the current time is still valid (returned as stored, nothing sent to the
\* authorization server); the row is treated as expired exactly when the
\* current time is strictly later than expiry_date.
C3_BoundaryValid ==
    [][\A p \in Procs :
        (/\ Starts(p, "resolve")
         /\ req'[p].storeOk
         /\ req'[p].user \in DOMAIN tokens
         /\ Truthy(tokens[req'[p].user].expiry_date))
        => LET row == tokens[req'[p].user]
               expired ==
                   \/ req'[p].pc = "refreshing"
                   \/ req'[p].result.error =
                          "Token expired and no refresh token available"
           IN /\ expired <=> now > DateParse(row.expiry_date)
              /\ DateParse(row.expiry_date) = now
                    => /\ req'[p].pc = "done"
                       /\ req'[p].result.returns = "tokenData"
                       /\ req'[p].calls = 0
                       /\ oauth2Client' = oauth2Client]_vars

C3_Witness ==
    \E p \in Procs :
        /\ req[p].op = "resolve" /\ req[p].pc = "done"
        /\ req[p].result.returns = "tokenData"
        /\ req[p].tokenData.refresh_token # NULL
        /\ Truthy(req[p].tokenData.expiry_date)
        /\ DateParse(req[p].tokenData.expiry_date) = now
        /\ req[p].calls = 0

\* C4: resolving a row whose expiry_date is absent or strictly later than
\* the current time returns the stored credential itself (access_token,
\* refresh_token, expiry_date, user_id), with no call to the authorization
\* server and no write to the table.
C4_FreshReturnedUnchanged ==
    [][\A p \in Procs :
        (/\ Starts(p, "resolve")
         /\ req'[p].storeOk
         /\ req'[p].user \in DOMAIN tokens
         /\ \/ tokens[req'[p].user].expiry_date = NULL
            \/ DateParse(tokens[req'[p].user].expiry_date) > now)
        => /\ req'[p].pc = "done"
           /\ req'[p].result.error = ""
           /\ req'[p].result.returns = "tokenData"
           /\ req'[p].tokenData = tokens[req'[p].user]
           /\ req'[p].tokenData.user_id = req'[p].user
           /\ req'[p].calls = 0
           /\ req'[p].writes = 0
           /\ tokens' = tokens
           /\ oauth2Client' = oauth2Client]_vars

C4_Witness ==
    \E p \in Procs :
        /\ req[p].op = "resolve" /\ req[p].pc = "done"
        /\ req[p].result.returns = "tokenData"
        /\ req[p].tokenData.refresh_token # NULL
        /\ Truthy(req[p].tokenData.expiry_date)
        /\ DateParse(req[p].tokenData.expiry_date) > now
        /\ req[p].tokenData = tokens[req[p].user]

\* C5: when the resolution of an expired row with a refresh token gets its
\* token response and the update goes through, the user's row holds the
\* access token and the expiry of that response, and the credential returned
\* to the caller carries the same two values.
C5_RefreshPersisted ==
    [][\A p \in Procs :
        (/\ Leaves(p, "resolve", "updating")
         /\ req'[p].storeOk
         /\ req[p].user \in DOMAIN tokens)
        => LET u == req[p].user
               c == req[p].credentials
           IN /\ c.access_token \in AccessTokens
              /\ u \in DOMAIN tokens'
              /\ tokens'[u].access_token = c.access_token
              /\ SameExpiry(tokens'[u].expiry_date, c.expiry_date)
              /\ req'[p].pc = "done"
              /\ req'[p].result.returns = "credentials"
              /\ req'[p].credentials.access_token = c.access_token
              /\ req'[p].credentials.expiry_date = c.expiry_date]_vars

C5_Witness ==
    \E p \in Procs :
        /\ req[p].op = "resolve" /\ req[p].pc = "done"
        /\ req[p].result.returns = "credentials"
        /\ req[p].hadRow /\ req[p].storeOk
        /\ req[p].credentials.expiry_date # 0
        /\ tokens[req[p].user].access_token = req[p].credentials.access_token
        /\ DateParse(tokens[req[p].user].expiry_date) = req[p].credentials.expiry_date
        /\ DateParse(tokens[req[p].user].expiry_date) > now

\* C6: the update of either refresh path (inside the resolution, and the
\* refresh route) leaves refresh_token and user_id of every row as they
\* were and adds or removes no row; hence every row's refresh_token is the
\* one the last authorization callback left there.
C6_RefreshKeepsRefreshToken ==
    /\ [][\A p \in Procs :
            (Leaves(p, "resolve", "updating") \/ Leaves(p, "refresh", "updating"))
            => /\ DOMAIN tokens' = DOMAIN tokens
               /\ \A u \in DOMAIN tokens :
                    /\ tokens'[u].refresh_token = tokens[u].refresh_token
                    /\ tokens'[u].user_id = tokens[u].user_id]_vars
    /\ [](\A u \in DOMAIN tokens : tokens[u].refresh_token = cbRefresh[u])

C6_Witness ==
    \E p \in Procs :
        /\ req[p].op \in {"resolve", "refresh"} /\ req[p].pc = "done"
        /\ req[p].result.returns = "credentials"
        /\ req[p].hadRow /\ req[p].storeOk
        /\ tokens[req[p].user].access_token = req[p].credentials.access_token
        /\ tokens[req[p].user].refresh_token = "r2"
        /\ cbRefresh[req[p].user] = "r2"

\* C7: the refresh route for a user whose row is absent or holds no
\* refresh_token answers 404 "No refresh token found", sends nothing to the
\* authorization server and leaves the table and the client alone.
C7_NoRefreshToken ==
    [][\A p \in Procs :
        (/\ Starts(p, "refresh")
         /\ \/ req'[p].user \notin DOMAIN tokens
            \/ tokens[req'[p].user].refresh_token = NULL)
        => /\ req'[p].pc = "done"
           /\ req'[p].result.status = 404
           /\ req'[p].result.error = "No refresh token found"
           /\ req'[p].calls = 0
           /\ req'[p].writes = 0
           /\ tokens' = tokens
           /\ authClient' = authClient]_vars

C7_Witness ==
    \E p \in Procs :
        /\ req[p].op = "refresh" /\ req[p].pc = "done"
        /\ req[p].hadRow /\ req[p].storeOk
        /\ tokens[req[p].user].refresh_token = NULL
        /\ req[p].result.status = 404

\* C8: a disconnect whose delete the store carries out answers 200 whether
\* or not the user had a row, a second disconnect directly after the first
\* included, and leaves no row for the user.
C8_DisconnectIdempotent ==
    [][\A p \in Procs :
        (Starts(p, "disconnect") /\ req'[p].storeOk)
        => /\ req'[p].pc = "done"
           /\ req'[p].result.status = 200
           /\ req'[p].result.error = ""
           /\ req'[p].user \notin DOMAIN tokens'
           /\ \A u \in DOMAIN tokens \ {req'[p].user} :
                u \in DOMAIN tokens' /\ tokens'[u] = tokens[u]]_vars

C8_Witness ==
    \E p \in Procs :
        /\ req[p].op = "disconnect" /\ req[p].pc = "done"
        /\ req[p].again /\ ~req[p].hadRow /\ req[p].storeOk
        /\ req[p].result.status = 200
        /\ req[p].user \notin DOMAIN tokens

\* C9 as stated: for every existing row the status reports needsRefresh =
\* expired AND hasRefreshToken and connected = NOT expired OR hasRefreshToken,
\* a row without expiry_date counting as not expired.
C9_StatusFormula ==
    [][\A p \in Procs :
        (/\ Starts(p, "status")
         /\ req'[p].storeOk
         /\ req'[p].user \in DOMAIN tokens)
        => LET row == tokens[req'[p].user]
               expired == row.expiry_date # NULL /\ now > DateParse(row.expiry_date)
               hasRefreshToken == row.refresh_token # NULL
           IN /\ req'[p].result.needsRefresh = JsBool(expired /\ hasRefreshToken)
              /\ req'[p].result.connected = JsBool(~expired \/ hasRefreshToken)]_vars

\* C10: the connection status never fails: the answer is always 200 with a
\* boolean `connected`, and it is connected = false for a falsy userId, for
\* a user without a row and for a select the store answers with an error.
C10_StatusNeverFails ==
    \A p \in Procs :
        (req[p].op = "status" /\ req[p].pc = "done")
        => /\ req[p].result.status = 200
           /\ req[p].result.error = ""
           /\ req[p].result.connected \in {"true", "false"}
           /\ (req[p].user = NoUser \/ ~req[p].hadRow \/ ~req[p].storeOk)
                => req[p].result.connected = "false"

C10_Witness ==
    \E p \in Procs :
        /\ req[p].op = "status" /\ req[p].pc = "done"
        /\ req[p].hadRow /\ ~req[p].storeOk
        /\ tokens[req[p].user].refresh_token # NULL
        /\ req[p].result.status = 200
        /\ req[p].result.connected = "false"

\* ------------------------------------------------------- calendar events
\* slot p's route leaves program point `pc` in this step
CallLeaves(p, route, pc) ==
    call[p].route = route /\ call[p].pc = pc /\ call'[p].pc # pc
\* the rows a pull builds from the listed events, without their timestamps
PulledRows(u, items) == {NoTimestamp(ToInternal(u, items[i], 0)) : i \in DOMAIN items}

\* C11: a pull that lists the same events as the successful pull before it,
\* the remote calendar unchanged and calendar_events not written otherwise
\* in between, leaves the user with
\* the same number of rows as the first pull did, and the rows agree in every
\* column but the timestamp created_at.
C11_PullIdempotent ==
    [][\A p \in Procs :
        (/\ CallLeaves(p, "sync", "upserting")
         /\ call'[p].stored
         /\ lastPull.valid
         /\ lastPull.user = call[p].user
         /\ lastPull.items = call[p].items)
        => /\ BagCardinality(SelectEvents(events', call[p].user))
                = BagCardinality(SelectEvents(events, call[p].user))
           /\ RowsOf(events', call[p].user) = lastPull.rows
           /\ call'[p].status = 200]_vars

\* a second pull of a non-empty calendar, later than the first, has succeeded
C11_Witness ==
    \E p \in Procs :
        /\ call[p].route = "sync" /\ call[p].pc = "done" /\ call[p].status = 200
        /\ call[p].repeat
        /\ call[p].items # <<>>
        /\ call[p].prevAt >= 0
        /\ call[p].prevAt < DateParse(call[p].batch[1].created_at)

\* the rows of a table that carry the key of `row`
SameKey(tbl, row) == [r \in {x \in BagToSet(tbl) : UniqueKey(x) = UniqueKey(row)} |-> tbl[r]]
\* the last row of a batch that carries the key of its i-th row
LastOfKey(batch, i) ==
    LET js == {j \in DOMAIN batch : UniqueKey(batch[j]) = UniqueKey(batch[i])}
    IN batch[CHOOSE j \in js : \A k \in js : k <= j]

\* C12 as stated: when the store takes the upsert of a pull, every key of
\* the batch, whether a row of an earlier pull carries it or two events of
\* this pull map to it, ends with exactly one stored row, which holds the
\* values of the later event.
C12_LaterEventStored ==
    [][\A p \in Procs :
        (CallLeaves(p, "sync", "upserting") /\ call'[p].answered)
        => \A i \in DOMAIN call[p].batch :
              SameKey(events', call[p].batch[i])
                  = SetToBag({LastOfKey(call[p].batch, i)})]_vars

\* C13: however the callbacks, resolutions, refreshes and disconnects of two
\* requests interleave, google_calendar_tokens holds at most one row for
\* each user_id (and the row a select finds is there exactly when one is).
C13_OneRowPerUser ==
    \A u \in Users :
        /\ rowCount[u] <= 1
        /\ rowCount[u] = 1 <=> u \in DOMAIN tokens

\* two callbacks for one user have both written, the later onto the row of
\* the earlier
C13_Witness ==
    \E p, q \in Procs :
        /\ p # q
        /\ req[p].op = "callback" /\ req[p].result.status = 200
        /\ req[q].op = "callback" /\ req[q].result.status = 200
        /\ req[p].user = req[q].user
        /\ ~req[p].hadRow /\ req[q].hadRow
        /\ rowCount[req[p].user] = 1

\* C14: after any sequence of sync-events and save-events requests no two
\* rows of calendar_events carry the same (user_id, title, due_date); a
\* save-events batch that repeats a stored key, or one key twice, adds no row.
C14_KeysUnique ==
    /\ \A r \in BagToSet(events) : BagCardinality(SameKey(events, r)) = 1
    /\ \A p \in Procs :
          (/\ call[p].route = "save" /\ call[p].pc = "done"
           /\ \E i, j \in DOMAIN call[p].batch :
                 i # j /\ UniqueKey(call[p].batch[i]) = UniqueKey(call[p].batch[j]))
          => call[p].status = 500 /\ ~call[p].stored

\* save-events has sent a row whose key a pull had stored, and one key twice
C14_Witness ==
    \E p \in Procs :
        /\ call[p].route = "save" /\ call[p].pc = "done" /\ call[p].answered
        /\ Len(call[p].batch) = 2
        /\ call[p].status = 500
        /\ \E r \in BagToSet(events) :
              /\ r.event_type = "google_calendar"
              /\ UniqueKey(r) = UniqueKey(call[p].batch[1])

\* C15: when the upsert of a pull fails (the store is down, or it rejects
\* the batch), sync-events answers 500 "Failed to sync events" with the
\* store failure as its cause, reports no syncedCount, and calendar_events
\* is as it was.
C15_UpsertFailureSurfaced ==
    [][\A p \in Procs :
        (CallLeaves(p, "sync", "upserting") /\ ~call'[p].stored)
        => /\ call'[p].pc = "done"
           /\ call'[p].status = 500
           /\ call'[p].error = "Failed to sync events"
           /\ call'[p].details = "Failed to sync events to database"
           /\ call'[p].syncedCount = -1
           /\ events' = events]_vars

\* the store has failed the upsert of a pull that listed events
C15_Witness ==
    \E p \in Procs :
        /\ call[p].route = "sync" /\ call[p].pc = "done"
        /\ call[p].eventWrites = 1
        /\ call[p].items # <<>>
        /\ ~call[p].answered /\ ~call[p].stored

\* C16: add-event with a body that lacks eventData, its title or its
\* due_date answers 400 before any credential is resolved: the step reads
\* no table, calls neither the authorization server nor the remote
\* calendar, and changes nothing but the response.
C16_InvalidInputFirst ==
    [][\A p \in Procs :
        (/\ call[p].route = "none"
         /\ call'[p].route = "add"
         /\ \/ ~call'[p].eventData.present
            \/ call'[p].eventData.title = NULL
            \/ call'[p].eventData.due_date = NULL)
        => /\ call'[p].pc = "done"
           /\ call'[p].status = 400
           /\ call'[p].error =
                  "Missing required fields: eventData.title and eventData.due_date"
           /\ call'[p].remoteCalls = 0
           /\ req' = req
           /\ UNCHANGED <<tokens, oauth2Client, authClient, events, remote>>]_vars

\* add-event has answered a body whose eventData has a title but no due_date,
\* for a user whose credential is stored
C16_Witness ==
    \E p \in Procs :
        /\ call[p].route = "add" /\ call[p].pc = "done" /\ call[p].status = 400
        /\ call[p].eventData.present
        /\ call[p].eventData.title # NULL
        /\ call[p].eventData.due_date = NULL
        /\ call[p].user \in DOMAIN tokens
        /\ req[p].op = "idle"

\* C17: add-event never writes calendar_events: from the request to the
\* response, whatever its outcome, the rows of the table stay as they were.
C17_PushLeavesTable ==
    [][\A p \in Procs :
        (call[p].route = "add" \/ call'[p].route = "add") => events' = events]_vars

\* an event has been pushed to the remote calendar while rows were stored
C17_Witness ==
    \E p \in Procs :
        /\ call[p].route = "add" /\ call[p].pc = "done" /\ call[p].status = 200
        /\ call[p].remoteCalls = 1
        /\ events # EmptyBag
        /\ \E i \in DOMAIN remote[call[p].user] :
              remote[call[p].user][i] = FormatEventForGoogleCalendar(call[p].eventData)

\* the error each route on the calendar client is to report
ExpectedError(route) ==
    IF route = "calendars" THEN "Failed to fetch calendars"
    ELSE IF route = "add" THEN "Failed to add event to Google Calendar"
    ELSE "Failed to sync events"

\* C18: list-calendars, add-event (with title and due_date) and sync-events
\* for a user without a row in google_calendar_tokens find no credential and
\* answer 500 with the error of the route; no call goes to the remote
\* calendar and no row is written to calendar_events.
C18_NotConnectedIs500 ==
    [][\A p \in Procs :
        /\ (/\ call[p].route = "none"
            /\ call'[p].route \in {"calendars", "add", "sync"}
            /\ call'[p].pc = "resolving"
            /\ call'[p].user \notin DOMAIN tokens)
           => /\ req'[p].pc = "done"
              /\ req'[p].result.error = "No Google tokens found in database"
              /\ UNCHANGED <<events, remote, oauth2Client>>
        /\ (/\ call[p].pc = "resolving"
            /\ req[p].pc = "done"
            /\ req[p].result.error = "No Google tokens found in database"
            /\ call'[p] # call[p])
           => /\ call'[p].pc = "done"
              /\ call'[p].status = 500
              /\ call'[p].error = ExpectedError(call[p].route)
              /\ call'[p].details = "No Google tokens found in database"
              /\ call'[p].remoteCalls = 0
              /\ call'[p].eventWrites = 0
              /\ UNCHANGED <<events, remote, oauth2Client>>]_vars

\* add-event with a valid body has failed for a user without a row
C18_Witness ==
    \E p \in Procs :
        /\ call[p].route = "add" /\ call[p].pc = "done" /\ call[p].status = 500
        /\ ~MissingFields(call[p].eventData)
        /\ call[p].user \notin DOMAIN tokens
        /\ ~req[p].hadRow /\ req[p].storeOk
        /\ call[p].details = "No Google tokens found in database"

\* the requests of slot p that have their answer
Answered(p) == call[p].pc = "done"
RefreshAnswered(p) ==
    call[p].route = "none" /\ req[p].op = "refresh" /\ req[p].pc = "done"
\* the failures that come from the remote calendar, the authorization
\* server or the store
OutsideFailures == {"remote", "Failed to sync events to database", "invalid_grant",
                    "Failed to update tokens in database"}

\* C19 as stated: every route answers 404 when the credential record or the
\* refresh token is missing, 400 when its input is missing, and 500 only
\* when the remote calendar, the authorization server or the store fails.
C19_MissingCredentialIs404 ==
    \A p \in Procs :
        /\ (Answered(p) /\ call[p].details \in NoCredentialErrors)
           => call[p].status = 404
        /\ (Answered(p) /\ call[p].route = "add" /\ MissingFields(call[p].eventData))
           => call[p].status = 400
        /\ (Answered(p) /\ call[p].status = 500 /\ call[p].route # "tokens")
           => call[p].details \in OutsideFailures
        /\ (RefreshAnswered(p) /\ req[p].calls = 0) => req[p].result.status = 404

\* C19, corrected: the status depends on the route.  list-calendars,
\* add-event and sync-events answer 500 with the error of the route when the
\* credential record or its refresh token is missing, as for every other
\* failure; get-tokens answers 404 when it reads no row (a failed read
\* included), refresh answers 404 when the row or its refresh token is
\* missing; add-event answers 400 for missing input, and nothing else does.
C19_StatusByRoute ==
    \A p \in Procs :
        /\ Answered(p) => call[p].status \in {200, 400, 404, 500}
        /\ (Answered(p) /\ call[p].details \in NoCredentialErrors)
           => /\ call[p].route \in {"calendars", "add", "sync"}
              /\ call[p].status = 500
              /\ call[p].error = ExpectedError(call[p].route)
        /\ (Answered(p) /\ call[p].route \in {"calendars", "add", "sync"})
           => call[p].status \in {200, 400, 500}
        /\ (Answered(p) /\ call[p].route = "tokens")
           => IF call[p].answered /\ call[p].user \in DOMAIN tokens
              THEN call[p].status = 200
              ELSE call[p].status = 404 /\ call[p].error = "No tokens found"
        /\ (Answered(p) /\ call[p].status = 400)
           <=> (Answered(p) /\ call[p].route = "add" /\ MissingFields(call[p].eventData))
        /\ (RefreshAnswered(p)
             /\ (req[p].user \notin DOMAIN tokens
                 \/ RowOf(req[p].user).refresh_token = NULL))
           => req[p].result.status = 404

\* list-calendars has answered 500 for a row that is expired and has no
\* refresh token
C19_Witness ==
    \E p \in Procs :
        /\ Answered(p) /\ call[p].route = "calendars"
        /\ call[p].status = 500
        /\ call[p].details = "Token expired and no refresh token available"
        /\ req[p].hadRow /\ req[p].storeOk
        /\ RowOf(call[p].user).refresh_token = NULL

\* C20 as stated: once a pull has succeeded, synced-events without a date
\* filter returns the events that pull stored.
C20_SyncedEventsReturned ==
    \A p \in Procs :
        (/\ Answered(p) /\ call[p].route = "synced" /\ call[p].status = 200
         /\ lastPull.valid /\ lastPull.user = call[p].user)
        => \A r \in PulledRows(call[p].user, lastPull.items) :
              \E x \in BagToSet(call[p].returned) : NoTimestamp(x) = r

\* the slot that is not p
Other(p) == CHOOSE q \in Procs : q # p
\* slot q is inside a resolution for user u that found the row expired
\* (its refresh is out, or its update is)
Refreshing(q, u) ==
    /\ req[q].op = "resolve"
    /\ req[q].user = u
    /\ req[q].pc \in {"refreshing", "updating"}

\* C21: two concurrent resolveCredential calls for the same user with an
\* expired record and a refresh token.  Each of them calls the authorization
\* server's refresh, also when the other one is already past its select;
\* each one whose refresh and update are carried out returns the refreshed
\* credential it obtained; and each update of a present row leaves the row
\* with that call's access token and expiry (so the row ends up as the last
\* writer's), present and with the refresh token it held before.
C21_ConcurrentRefresh ==
    [][\A p \in Procs :
        LET q == Other(p)
            u == req'[p].user
        IN /\ ( /\ Starts(p, "resolve")
                /\ Refreshing(q, u)
                /\ u \in DOMAIN tokens
                /\ Truthy(IsExpired(tokens[u], now))
                /\ Truthy(tokens[u].refresh_token) )
              => /\ req'[p].pc = "refreshing"
                 /\ req'[p].calls = 1
           /\ ( /\ Leaves(p, "resolve", "updating")
                /\ req'[p].storeOk
                /\ u \in DOMAIN tokens
                /\ req[q].op = "resolve" /\ req[q].user = u
                /\ req[q].pc \in {"refreshing", "updating", "done"} )
              => /\ req'[p].result.returns = "credentials"
                 /\ req'[p].result.error = ""
                 /\ req'[p].credentials = req[p].credentials
                 /\ u \in DOMAIN tokens'
                 /\ tokens'[u].access_token = req[p].credentials.access_token
                 /\ SameExpiry(tokens'[u].expiry_date, req[p].credentials.expiry_date)
                 /\ tokens'[u].refresh_token = tokens[u].refresh_token
                 /\ Truthy(tokens'[u].refresh_token)
                 /\ tokens'[u].user_id = u
    ]_vars

\* both resolutions have returned a refreshed credential, p1's update left
\* the row without expiry_date (so p2 read the expired row before that
\* update), and the row holds p2's access token, which is not p1's: p2 wrote
\* last
C21_Witness ==
    /\ \A p \in Procs :
          /\ req[p].op = "resolve" /\ req[p].pc = "done"
          /\ req[p].user = "u1"
          /\ req[p].result.returns = "credentials"
          /\ req[p].calls = 1 /\ req[p].writes = 1
    /\ req["p1"].credentials.expiry_date = 0
    /\ req["p2"].credentials.expiry_date # 0
    /\ req["p1"].credentials.access_token # req["p2"].credentials.access_token
    /\ "u1" \in DOMAIN tokens
    /\ tokens["u1"].access_token = req["p2"].credentials.access_token
    /\ SameExpiry(tokens["u1"].expiry_date, req["p2"].credentials.expiry_date)
    /\ tokens["u1"].refresh_token = "r1"

\* slot p's refresh sends its store write in this step, after a disconnect
\* has deleted the user's row while the refresh was in flight
WritesAfterDisconnect(p) ==
    /\ Leaves(p, "resolve", "updating")
    /\ req'[p].storeOk
    /\ req[p].user \in disconnected
    /\ req[p].user \notin DOMAIN tokens

\* C22 as stated: the store write of a refresh that raced with a disconnect
\* leaves a credential record for the user in the store.
C22_RefreshRecreatesRecord ==
    [][\A p \in Procs :
        WritesAfterDisconnect(p) => req[p].user \in DOMAIN tokens'
    ]_vars

\* C22: a refresh racing with a disconnect does not re-create the record.
\* In every interleaving in which the disconnect deletes the row while the
\* refresh is in flight, the refresh's store write (an update matched by
\* user_id) leaves the user without a row and every other row as it was,
\* while the refresh itself still returns its refreshed credential.
C22_RefreshNeverRecreates ==
    [][\A p \in Procs :
        WritesAfterDisconnect(p) =>
            /\ req[p].user \notin DOMAIN tokens'
            /\ tokens' = tokens
            /\ req'[p].result.returns = "credentials"
            /\ req'[p].credentials = req[p].credentials
    ]_vars

\* p2's refresh has written after p1's disconnect deleted the row: the write
\* met no row, the user has none, and the refresh returned its credential
C22_Witness ==
    /\ req["p1"].op = "disconnect" /\ req["p1"].pc = "done"
    /\ req["p1"].hadRow /\ req["p1"].result.status = 200
    /\ req["p2"].op = "resolve" /\ req["p2"].pc = "done"
    /\ req["p2"].user = req["p1"].user
    /\ req["p2"].writes = 1 /\ req["p2"].storeOk /\ ~req["p2"].hadRow
    /\ req["p2"].result.returns = "credentials"
    /\ req["p2"].user \in disconnected
    /\ req["p2"].user \notin DOMAIN tokens

\* C26: credentials are not cached across operations.  From the completion
\* of a disconnect for a user until the next authorization callback stores a
\* row for that user, every credential resolution started for the user fails
\* with "No Google tokens found in database" without calling the
\* authorization server or touching the shared client, and every
\* connection-status request reports connected = false, whatever the
\* operations before the disconnect resolved or refreshed.
C26_NoCredentialCache ==
    [][\A p \in Procs :
        /\ (Starts(p, "resolve") /\ req'[p].user \in disconnected)
              => /\ req'[p].pc = "done"
                 /\ req'[p].result.returns = "none"
                 /\ req'[p].result.error = "No Google tokens found in database"
                 /\ req'[p].calls = 0
                 /\ oauth2Client' = oauth2Client
        /\ (Starts(p, "status") /\ req'[p].user \in disconnected)
              => /\ req'[p].pc = "done"
                 /\ req'[p].result.status = 200
                 /\ req'[p].result.connected = "false"
    ]_vars

\* after a disconnect, a resolution and a status request for the user have
\* been turned down while the shared client still holds the credentials an
\* earlier refresh left on it
C26_Witness ==
    /\ "u1" \in disconnected
    /\ "u1" \notin DOMAIN tokens
    /\ Truthy(oauth2Client.access_token)
    /\ Truthy(oauth2Client.refresh_token)
    /\ req["p1"].op = "status" /\ req["p1"].pc = "done" /\ req["p1"].user = "u1"
    /\ req["p1"].storeOk
    /\ req["p1"].result.connected = "false"
    /\ req["p2"].op = "resolve" /\ req["p2"].pc = "done" /\ req["p2"].user = "u1"
    /\ req["p2"].result.error = "No Google tokens found in database"

\* the day and the hour a dateTime falls on where local time is UTC + zone
LocalDayOf(dateTime, zone) == (StartInstant(dateTime) + zone) \div 24
LocalHourOf(dateTime, zone) == (StartInstant(dateTime) + zone) % 24
\* the mapper has mapped an internal event; its argument and its result
MappedToRemote == mapped.fn = "toRemote"
MapArg == mapped.arg[1]
MapRet == mapped.ret[1]

\* C23: toRemote of an all-day internal event (due_date present, due_time
\* absent) gives a start at midnight of due_date in the local zone of the
\* process and an end exactly 24 hours after the start, in every zone.
C23_AllDayAtLocalMidnight ==
    (MappedToRemote /\ ~Truthy(MapArg.due_time)) =>
        /\ LocalDayOf(MapRet.start.dateTime, mapped.zone) = DayOf(MapArg.due_date)
        /\ LocalHourOf(MapRet.start.dateTime, mapped.zone) = 0
        /\ StartInstant(MapRet.end.dateTime) = StartInstant(MapRet.start.dateTime) + 24

\* C24: toRemote of a timed internal event (due_time present) gives a start
\* that falls on due_date at due_time in the local zone of the process and an
\* end exactly one hour after the start; summary is the title, and
\* description and location are the event's, or "" when it has none.
C24_TimedAtLocalTime ==
    (MappedToRemote /\ Truthy(MapArg.due_time)) =>
        /\ LocalDayOf(MapRet.start.dateTime, mapped.zone) = DayOf(MapArg.due_date)
        /\ LocalHourOf(MapRet.start.dateTime, mapped.zone) = HourOf(MapArg.due_time)
        /\ StartInstant(MapRet.end.dateTime) = StartInstant(MapRet.start.dateTime) + 1
        /\ MapRet.summary = MapArg.title
        /\ MapRet.description =
              (IF MapArg.description = NULL THEN "" ELSE MapArg.description)
        /\ MapRet.location = (IF MapArg.location = NULL THEN "" ELSE MapArg.location)

\* a timed event without description and location has been mapped in a zone
\* west of UTC, where 23:00 local is an hour of the next UTC day
C24_Witness ==
    /\ MappedToRemote
    /\ mapped.zone < 0
    /\ MapArg.due_time = IsoTime(23)
    /\ MapArg.description = NULL /\ MapArg.location = NULL
    /\ MapRet.start.dateTime.day = DayOf(MapArg.due_date) + 1
    /\ MapRet.description = "" /\ MapRet.location = ""

\* C27: toInternal stores the date and the time of day of the remote start
\* as the start expresses them.  For a start given as a dateTime with a zone
\* offset, due_date and due_time are that start's own day and hour; for a
\* start given as a bare date, due_date is that date and due_time is absent.
C27_StartDateAndTimeKept ==
    mapped.fn = "toInternal" =>
        IF MapArg.start.kind = "dateTime"
        THEN /\ MapRet.due_date = IsoDate(MapArg.start.day)
             /\ MapRet.due_time = IsoTime(MapArg.start.hour)
        ELSE /\ MapRet.due_date = IsoDate(MapArg.start.day)
             /\ MapRet.due_time = NULL

\* the rows a write left in the table that were not there before it
Written(before, after) == {r \in BagToSet(after) : r \notin BagToSet(before)}

\* C28: every row a pull writes carries the syncing user as user_id, the
\* event type "google_calendar", the confidence score 1.0 and no class_id,
\* whatever the remote event contains: this holds of every row of the batch
\* sent, and of every row the upsert added to the table or rewrote.
C28_PulledRowsMarked ==
    [][\A p \in Procs :
        CallLeaves(p, "sync", "upserting") =>
            LET marked(r) == /\ r.user_id = call[p].user
                             /\ r.event_type = "google_calendar"
                             /\ r.confidence_score = "1.0"
                             /\ r.class_id = NULL
            IN /\ \A i \in DOMAIN call[p].batch : marked(call[p].batch[i])
               /\ \A r \in Written(events, events') : marked(r)
               /\ call'[p].stored =>
                    \A i \in DOMAIN call[p].batch : BagIn(call[p].batch[i], events')
    ]_vars

\* a pull has stored two rows, one of them for an event without summary and
\* with a bare date, the other for an event with summary and description
C28_Witness ==
    \E p \in Procs :
        /\ call[p].route = "sync" /\ call[p].pc = "done" /\ call[p].stored
        /\ Len(call[p].batch) = 2
        /\ \E i, j \in DOMAIN call[p].items :
              /\ call[p].items[i].summary = NULL
              /\ call[p].items[i].start.kind = "date"
              /\ call[p].items[j].summary = "A"
              /\ call[p].items[j].description = "x"
        /\ \A i \in DOMAIN call[p].batch : BagIn(call[p].batch[i], events)

\* the rows of a table that carry the conflict key of row b
CountOfKey(tbl, b) ==
    BagCardinality([r \in {x \in BagToSet(tbl) : ConflictKey(x) = ConflictKey(b)} |-> tbl[r]])

\* C29: the conflict policy of a pull whose upsert the store answers.  A
\* pulled event whose (user_id, title, due_date) matches a stored row, one
\* written by save-events included, overwrites that row in place (the rows
\* of that key stay as many); a pulled event whose key matches no stored row
\* adds exactly one row; every stored row whose key is not in the batch is
\* left unchanged.
C29_ConflictPolicy ==
    [][\A p \in Procs :
        (CallLeaves(p, "sync", "upserting") /\ call'[p].answered) =>
            LET batch == call[p].batch
                keys == {ConflictKey(batch[i]) : i \in DOMAIN batch}
            IN /\ \A i \in DOMAIN batch :
                    /\ CountOfKey(events', batch[i]) =
                          (IF CountOfKey(events, batch[i]) = 0 THEN 1
                           ELSE CountOfKey(events, batch[i]))
                    /\ \E r \in BagToSet(events') :
                          /\ ConflictKey(r) = ConflictKey(batch[i])
                          /\ r.event_type = "google_calendar"
               /\ \A r \in BagToSet(events) :
                    ConflictKey(r) \notin keys =>
                        BagIn(r, events') /\ events'[r] = events[r]
    ]_vars

\* C30: a callback without code or without user id answers 400 without an
\* exchange, and a callback whose code the authorization server refuses
\* answers 500 with an error; neither creates or modifies a credential
\* record.  A user's record comes into existence only by the upsert of a
\* callback for that user whose code exchange succeeded.
C30_FailedCallbackStoresNothing ==
    [][/\ \A p \in Procs :
            Starts(p, "callback") =>
                /\ tokens' = tokens /\ rowCount' = rowCount
                /\ (~Truthy(req'[p].code) \/ ~Truthy(req'[p].user)) =>
                      /\ req'[p].pc = "done"
                      /\ req'[p].result.status = 400
                      /\ req'[p].result.error # ""
                      /\ req'[p].calls = 0 /\ req'[p].writes = 0
                /\ (Truthy(req'[p].user) /\ req'[p].code = "bad") =>
                      /\ req'[p].pc = "done"
                      /\ req'[p].result.status = 500
                      /\ req'[p].result.error = "Failed to complete OAuth flow"
                      /\ req'[p].calls = 1 /\ req'[p].writes = 0
       /\ \A u \in Users :
            (u \notin DOMAIN tokens /\ u \in DOMAIN tokens') =>
                \E p \in Procs :
                    /\ Leaves(p, "callback", "upserting")
                    /\ req[p].user = u
                    /\ req[p].code = "good"
                    /\ req[p].calls = 1
                    /\ req'[p].result.status = 200
                    /\ tokens'[u].access_token = req[p].credentials.access_token
    ]_vars

\* a callback with a refused code has answered 500 for a user whose record,
\* stored by an earlier callback, is there to be modified
C30_Witness ==
    /\ req["p1"].op = "callback" /\ req["p1"].pc = "done"
    /\ req["p1"].code = "bad" /\ req["p1"].user = "u1"
    /\ req["p1"].result.status = 500
    /\ req["p1"].writes = 0
    /\ "u1" \in DOMAIN tokens
    /\ tokens["u1"].refresh_token = cbRefresh["u1"]

\* C25: under concurrent operations for two users, every remote calendar
\* call and every refresh call made on behalf of a user is authorized with
\* that user's own credential.  The client that sends a remote call for user
\* U holds U's access token and no refresh token but U's, and a refresh for
\* U is sent, and answered, with U's refresh token.
C25_OwnCredentialOnly ==
    \A p \in Procs :
        /\ call[p].pc = "calling" =>
              /\ call[p].auth = AccessOf(call[p].user)
              /\ call[p].authRefresh \in {NULL, RefreshOf(call[p].user)}
        /\ (req[p].op = "resolve" /\ req[p].pc = "updating") =>
              /\ req[p].credentials.access_token = AccessOf(req[p].user)
              /\ req[p].credentials.refresh_token \in {NULL, RefreshOf(req[p].user)}

\* C31: when the authorization server has answered a refresh and the store
\* fails the update that persists it, the resolution fails with "Failed to
\* update tokens in database" and returns no credential, the row keeps the
\* access token and expiry it had, and nothing is retried (one refresh call,
\* one store write); the route that asked for the client then answers 500
\* without setting credentials on the client and without a remote call.  The
\* refresh route answers 500 'Failed to update tokens' in the same case.
C31_PersistFailureSurfaced ==
    [][\A p \in Procs :
        /\ (Leaves(p, "resolve", "updating") /\ ~req'[p].storeOk) =>
              /\ req'[p].pc = "done"
              /\ req'[p].result.returns = "none"
              /\ req'[p].result.error = "Failed to update tokens in database"
              /\ req'[p].credentials = NoCredentials
              /\ req'[p].calls = 1 /\ req'[p].writes = 1
              /\ tokens' = tokens
        /\ ( /\ CallLeaves(p, call[p].route, "resolving")
             /\ req[p].result.error = "Failed to update tokens in database" ) =>
              /\ call'[p].pc = "done"
              /\ call'[p].status = 500
              /\ call'[p].error = RouteError(call[p].route)
              /\ call'[p].remoteCalls = 0
              /\ call'[p].auth = NULL
              /\ oauth2Client' = oauth2Client
              /\ req'[p].calls = 1 /\ req'[p].writes = 1
              /\ tokens' = tokens
        /\ (Leaves(p, "refresh", "updating") /\ ~req'[p].storeOk) =>
              /\ req'[p].pc = "done"
              /\ req'[p].result.status = 500
              /\ req'[p].result.error = "Failed to update tokens"
              /\ req'[p].result.returns = "none"
              /\ req'[p].credentials = NoCredentials
              /\ req'[p].calls = 1 /\ req'[p].writes = 1
              /\ tokens' = tokens
    ]_vars

\* a pull has answered 500 after its refresh was answered and the update
\* failed: the row is still the expired one the callback stored
C31_Witness ==
    \E p \in Procs :
        /\ call[p].route = "sync" /\ call[p].pc = "done"
        /\ call[p].status = 500
        /\ call[p].details = "Failed to update tokens in database"
        /\ call[p].remoteCalls = 0
        /\ req[p].calls = 1 /\ req[p].writes = 1 /\ ~req[p].storeOk
        /\ call[p].user \in DOMAIN tokens
        /\ tokens[call[p].user].access_token = "a1"
        /\ Truthy(IsExpired(tokens[call[p].user], now))
        /\ oauth2Client.access_token = "a2"

\* C32: the connection status is a read.  The step that serves it finishes
\* the request at once, with no call to the authorization server and no
\* store write counted, and leaves google_calendar_tokens, both OAuth2
\* clients, calendar_events and the remote calendars as they were, also when
\* the answer says needsRefresh = true; nothing is left pending, so the
\* delivery of the answer changes none of them either.
C32_StatusIsPureRead ==
    [][\A p \in Procs :
        (Starts(p, "status") \/ (req[p].op = "status" /\ req'[p] # req[p])) =>
            /\ tokens' = tokens
            /\ rowCount' = rowCount
            /\ oauth2Client' = oauth2Client
            /\ authClient' = authClient
            /\ cbRefresh' = cbRefresh
            /\ disconnected' = disconnected
            /\ evVars' = evVars
            /\ req'[p].calls = 0
            /\ req'[p].writes = 0
            /\ req'[p].pc \in {"done", "idle"}
            /\ req'[p].credentials = NoCredentials
    ]_vars

\* a status has answered needsRefresh = true and the row is still the
\* expired one
C32_Witness ==
    \E p \in Procs :
        /\ req[p].op = "status" /\ req[p].pc = "done"
        /\ req[p].result.needsRefresh = "true"
        /\ req[p].result.connected = "true"
        /\ req[p].calls = 0 /\ req[p].writes = 0
        /\ req[p].user \in DOMAIN tokens
        /\ Truthy(IsExpired(tokens[req[p].user], now))
        /\ tokens[req[p].user].access_token = "a1"

\* C33: with every access token issued in one token response, whose expiry
\* the token determines, each stored row carries the expiry of the response
\* its access token came from, under every interleaving of callbacks,
\* resolutions, refreshes and disconnects of two requests for one user.
C33_TokenAndExpiryOfOneResponse ==
    \A u \in DOMAIN tokens :
        tokens[u].expiry_date = IssuedExpiryStored(tokens[u].access_token)

\* a refresh has replaced the pair the callback stored by the pair of its own
\* response while the next callback for the user, answered with the other
\* pair, has its upsert in flight
C33_Witness ==
    \E p \in Procs :
        /\ req[p].op \in {"resolve", "refresh"} /\ req[p].pc = "done"
        /\ req[p].result.returns = "credentials"
        /\ req[p].credentials.access_token = "a2"
        /\ req[Other(p)].op = "callback" /\ req[Other(p)].pc = "upserting"
        /\ req[Other(p)].credentials.access_token = "a1"
        /\ "u1" \in DOMAIN tokens
        /\ tokens["u1"].access_token = "a2"
        /\ tokens["u1"].expiry_date = NULL
        /\ rowCount["u1"] = 1

\* the users slot p's request is for, over the step that serves it
StepUsers(p) == {req[p].user, call[p].user, req'[p].user, call'[p].user} \ {NoUser}
\* the step leaves the credential row and the calendar_events rows of user v
\* as they were
Untouched(v) ==
    /\ (v \in DOMAIN tokens') = (v \in DOMAIN tokens)
    /\ v \in DOMAIN tokens => tokens'[v] = tokens[v]
    /\ rowCount'[v] = rowCount[v]
    /\ SelectEvents(events', v) = SelectEvents(events, v)
    /\ SelectEvents(gcalEvents', v) = SelectEvents(gcalEvents, v)

\* C34: every step of a request (callback, resolution and refresh, disconnect,
\* pull, save-events) is a step for one user, and it neither creates nor
\* changes nor deletes the credential row or a calendar_events row of the
\* other user, also when the rows of the two users agree in title and date.
C34_UserIsolation ==
    [][\A p \in Procs :
        (req'[p] # req[p] \/ call'[p] # call[p]) =>
            /\ Cardinality(StepUsers(p)) = 1
            /\ \A v \in Users \ StepUsers(p) : Untouched(v)
    ]_vars

\* a pull for u1, with a refresh inside it, has stored its row while u2 holds
\* a credential row and a calendar_events row of the same title and date
C34_Witness ==
    \E p \in Procs :
        /\ call[p].route = "sync" /\ call[p].pc = "done" /\ call[p].stored
        /\ call[p].user = "u1"
        /\ req[p].writes = 1
        /\ {"u1", "u2"} \subseteq DOMAIN tokens
        /\ tokens["u2"].access_token = "a2"
        /\ \E r1, r2 \in BagToSet(events) :
              /\ r1.user_id = "u1" /\ r2.user_id = "u2"
              /\ r1.title = r2.title /\ r1.due_date = r2.due_date

\* the conflict keys of the rows of a batch
BatchKeys(batch) == {ConflictKey(batch[i]) : i \in DOMAIN batch}

\* C35: a pull deletes no local row.  Over the step in which the store
\* answers the upsert of a pull, the user has at least as many calendar_events
\* rows after it as before, every stored row whose key the batch does not
\* carry (its remote event is no longer listed) is stored unchanged, and every
\* key stored before is still stored; and no step at all lowers the number of
\* rows of a user.
C35_PullNeverDeletes ==
    [][/\ \A p \in Procs :
            CallLeaves(p, "sync", "upserting") =>
                LET u == call[p].user
                    keys == BatchKeys(call[p].batch)
                IN /\ BagCardinality(SelectEvents(events', u))
                        >= BagCardinality(SelectEvents(events, u))
                   /\ \A r \in BagToSet(events) :
                        /\ ConflictKey(r) \notin keys =>
                              r \in BagToSet(events') /\ events'[r] = events[r]
                        /\ \E x \in BagToSet(events') : ConflictKey(x) = ConflictKey(r)
       /\ \A u \in Users :
            BagCardinality(SelectEvents(events', u))
                >= BagCardinality(SelectEvents(events, u))
    ]_vars

\* a pull has stored its rows, none of them with the key of a row that an
\* earlier pull stored at an earlier time: that row is still stored although
\* its event is no longer listed
C35_Witness ==
    \E p \in Procs :
        /\ call[p].route = "sync" /\ call[p].pc = "done" /\ call[p].stored
        /\ call[p].batch # <<>>
        /\ \E r \in BagToSet(events) :
              /\ r.user_id = call[p].user
              /\ r.event_type = "google_calendar"
              /\ ConflictKey(r) \notin BatchKeys(call[p].batch)
              /\ DateParse(r.created_at) < DateParse(call[p].batch[1].created_at)
====
